---- MODULE Spec2Model ----
(***************************************************************************)
(* NinjaOne MCP server: the OAuth2 client-credentials token cache of       *)
(* NinjaOneAPI (src/src/ninja-api.ts) with region auto-detection, the      *)
(* set_region tool that pins the endpoint, the upstream call makeRequest,  *)
(* and the session gateway of the Streamable HTTP transport.               *)
(*                                                                         *)
(* JavaScript runs each async function atomically between two awaits, so   *)
(* an action is one such run: from the call (or the settling of the fetch  *)
(* it awaits) to the next await or to the return/throw.                    *)
(*                                                                         *)
(* Strings are sequences of one-character strings, so that the regular     *)
(* expressions and normalizeBaseUrl are computed as the code computes them.*)
(***************************************************************************)
EXTENDS Integers, Sequences, FiniteSets, TLC

(***************************************************************************)
(* Bounds of the model.                                                    *)
(***************************************************************************)
\* concurrent getAccessToken callers (call slots, re-used by later calls)
NCalls == 2
\* events of one run: a getAccessToken call, a set_region call, a clock tick
MaxEvents == 3

Calls == 1..NCalls

\* /mcp handlers suspended at an await at one time
MaxHttp == 2

Slots == 1..MaxHttp

\* the longest response body an error message is taken to carry whole: the
\* code names no limit, and the longest body of the runs is longer than this
ErrorBodyLimit == 8

(***************************************************************************)
(* Characters and strings.                                                 *)
(***************************************************************************)
LowerLetters ==
    {"a","b","c","d","e","f","g","h","i","j","k","l","m",
     "n","o","p","q","r","s","t","u","v","w","x","y","z"}

UpperLetters ==
    {"A","B","C","D","E","F","G","H","I","J","K","L","M",
     "N","O","P","Q","R","S","T","U","V","W","X","Y","Z"}

Digits == {"0","1","2","3","4","5","6","7","8","9"}

\* \w of a JavaScript regular expression (no unicode flag)
WordChars == LowerLetters \cup UpperLetters \cup Digits \cup {"_"}

UPPER == <<"A","B","C","D","E","F","G","H","I","J","K","L","M",
           "N","O","P","Q","R","S","T","U","V","W","X","Y","Z">>

LOWER == <<"a","b","c","d","e","f","g","h","i","j","k","l","m",
           "n","o","p","q","r","s","t","u","v","w","x","y","z">>

\* String.prototype.toLowerCase on one character
LowerChar(c) ==
    IF c \in UpperLetters
    THEN LOWER[CHOOSE i \in 1..Len(UPPER) : UPPER[i] = c]
    ELSE c

toLowerCase(s) == [i \in 1..Len(s) |-> LowerChar(s[i])]

StartsWith(s, pre) ==
    /\ Len(s) >= Len(pre)
    /\ SubSeq(s, 1, Len(pre)) = pre

Drop(s, n) == SubSeq(s, n + 1, Len(s))

HTTPS_PREFIX == <<"h","t","t","p","s",":","/","/">>
HTTP_PREFIX == <<"h","t","t","p",":","/","/">>
VENDOR_SUFFIX == <<".","n","i","n","j","a","r","m","m",".","c","o","m">>

\* https://<sub>.ninjarmm.com
Url(sub) == HTTPS_PREFIX \o sub \o VENDOR_SUFFIX

Range(f) == {f[x] : x \in DOMAIN f}

(***************************************************************************)
(* Static tables of NinjaOneAPI.                                           *)
(***************************************************************************)
REGION_KEYS == {<<"u","s">>, <<"u","s","2">>, <<"e","u">>, <<"c","a">>, <<"o","c">>}

REGION_MAP ==
    [k \in REGION_KEYS |->
        IF k = <<"u","s">> THEN Url(<<"a","p","p">>) ELSE Url(k)]

DEFAULT_CANDIDATES ==
    << Url(<<"a","p","p">>), Url(<<"u","s","2">>), Url(<<"e","u">>),
       Url(<<"c","a">>), Url(<<"o","c">>) >>

\* /^https:\/\/[\w-]+\.ninjarmm\.com$/.test(s)
ALLOWED_DOMAIN_PATTERN(s) ==
    /\ StartsWith(s, HTTPS_PREFIX)
    /\ LET rest == Drop(s, Len(HTTPS_PREFIX))
       IN \E k \in 1..Len(rest) :
            /\ \A i \in 1..k : rest[i] \in WordChars \cup {"-"}
            /\ Drop(rest, k) = VENDOR_SUFFIX

\* /^https?:\/\//i.test(url) ? url : `https://${url}`
normalizeBaseUrl(url) ==
    IF \/ StartsWith(toLowerCase(url), HTTPS_PREFIX)
       \/ StartsWith(toLowerCase(url), HTTP_PREFIX)
    THEN url
    ELSE HTTPS_PREFIX \o url

\* String.prototype.trim (spaces only)
RECURSIVE TrimLeft(_)
TrimLeft(s) ==
    IF s # << >> /\ Head(s) = " " THEN TrimLeft(Tail(s)) ELSE s

RECURSIVE TrimRight(_)
TrimRight(s) ==
    IF s # << >> /\ s[Len(s)] = " " THEN TrimRight(SubSeq(s, 1, Len(s) - 1)) ELSE s

Trim(s) == TrimRight(TrimLeft(s))

\* String.prototype.split(','): the pieces between the commas, empty ones kept
RECURSIVE SplitComma(_, _)
SplitComma(s, cur) ==
    IF s = << >> THEN <<cur>>
    ELSE IF Head(s) = "," THEN <<cur>> \o SplitComma(Tail(s), << >>)
    ELSE SplitComma(Tail(s), Append(cur, Head(s)))

\* Array.prototype.join(', ') of strings
RECURSIVE Join(_)
Join(list) ==
    IF list = << >> THEN << >>
    ELSE IF Len(list) = 1 THEN list[1]
    ELSE list[1] \o <<",", " ">> \o Join(Tail(list))

\* does text contain part as a substring
Contains(text, part) ==
    \E i \in 0..(Len(text) - Len(part)) :
        SubSeq(text, i + 1, i + Len(part)) = part

\* A JavaScript value: its type, its size (members of an object, elements of
\* an array, characters of a string) and its text (the characters of a string,
\* the digits of a number, the "method" member of an object).
JsonValue(type, size, text) == [type |-> type, size |-> size, text |-> text]

\* JSON.parse on the texts of this model: the empty object, the empty array,
\* null, a number, a string, and an object with the one member "method".
\* Every other text makes it throw a SyntaxError.

JSON_SYNTAX_ERROR == JsonValue("SyntaxError", 0, << >>)

METHOD_MEMBER == <<"{", "\"", "m", "e", "t", "h", "o", "d", "\"", ":", "\"">>

JSON_parse(s) ==
    LET t == Trim(s)
        n == Len(t)
        inner == SubSeq(t, Len(METHOD_MEMBER) + 1, n - 2)
    IN IF t = <<"{", "}">> THEN JsonValue("object", 0, << >>)
       ELSE IF t = <<"[", "]">> THEN JsonValue("array", 0, << >>)
       ELSE IF t = <<"n", "u", "l", "l">> THEN JsonValue("null", 0, << >>)
       ELSE IF /\ n > 0
               /\ \A i \in 1..n : t[i] \in Digits
               /\ (n > 1 => t[1] # "0")
       THEN JsonValue("number", 0, t)
       ELSE IF /\ n >= 2 /\ t[1] = "\"" /\ t[n] = "\""
               /\ \A i \in 2..(n - 1) : t[i] \in WordChars
       THEN JsonValue("string", n - 2, SubSeq(t, 2, n - 1))
       ELSE IF /\ n >= Len(METHOD_MEMBER) + 2
               /\ StartsWith(t, METHOD_MEMBER)
               /\ t[n - 1] = "\"" /\ t[n] = "}"
               /\ \A i \in 1..Len(inner) : inner[i] \in WordChars
       THEN JsonValue("object", 1, inner)
       ELSE JSON_SYNTAX_ERROR

(***************************************************************************)
(* The process environment read by the constructor and by                  *)
(* getCandidateBaseUrls. An unset variable is the empty string, as         *)
(* `process.env.X || ''` and the truthiness tests of the code read it.     *)
(***************************************************************************)
CLIENT_ID == <<"i","d">>
CLIENT_SECRET == <<"s","3","c","r","t">>

Environments ==
    { \* credentials only: auto-detection over DEFAULT_CANDIDATES
      [NINJA_BASE_URL |-> << >>, NINJA_REGION |-> << >>, NINJA_BASE_URLS |-> << >>,
       NINJA_CLIENT_ID |-> CLIENT_ID, NINJA_CLIENT_SECRET |-> CLIENT_SECRET],
      \* operator-supplied candidates "ca.ninjarmm.com, ,https://oc.ninjarmm.com"
      [NINJA_BASE_URL |-> << >>, NINJA_REGION |-> << >>,
       NINJA_BASE_URLS |-> <<"c","a">> \o VENDOR_SUFFIX \o <<","," ",",">>
                            \o Url(<<"o","c">>),
       NINJA_CLIENT_ID |-> CLIENT_ID, NINJA_CLIENT_SECRET |-> CLIENT_SECRET],
      \* NINJA_REGION=EU
      [NINJA_BASE_URL |-> << >>, NINJA_REGION |-> <<"E","U">>, NINJA_BASE_URLS |-> << >>,
       NINJA_CLIENT_ID |-> CLIENT_ID, NINJA_CLIENT_SECRET |-> CLIENT_SECRET],
      \* NINJA_BASE_URL=us2.ninjarmm.com
      [NINJA_BASE_URL |-> <<"u","s","2">> \o VENDOR_SUFFIX, NINJA_REGION |-> << >>,
       NINJA_BASE_URLS |-> << >>,
       NINJA_CLIENT_ID |-> CLIENT_ID, NINJA_CLIENT_SECRET |-> CLIENT_SECRET],
      \* no client secret
      [NINJA_BASE_URL |-> << >>, NINJA_REGION |-> << >>, NINJA_BASE_URLS |-> << >>,
       NINJA_CLIENT_ID |-> CLIENT_ID, NINJA_CLIENT_SECRET |-> << >>],
      \* no client id, and a pinned region
      [NINJA_BASE_URL |-> << >>, NINJA_REGION |-> <<"e","u">>, NINJA_BASE_URLS |-> << >>,
       NINJA_CLIENT_ID |-> << >>, NINJA_CLIENT_SECRET |-> CLIENT_SECRET] }

(***************************************************************************)
(* Inputs.                                                                 *)
(***************************************************************************)
\* Date.now() advances in steps of TickMs
TickMs == 300 * 1000

\* expires_in (seconds) of a token response
ExpiresInChoices == {300, 600}

\* how a fetch of the token URL settles: a 2xx response with a token, a
\* non-2xx response, the AbortController's abort after 30 s, a network error
FetchOutcomes ==
    [kind : {"ok"}, expires_in : ExpiresInChoices]
        \cup [kind : {"non2xx", "timeout", "network"}, expires_in : {0}]

EVIL_URL ==
    HTTPS_PREFIX \o <<"e","v","i","l",".","e","x","a","m","p","l","e",".","c","o","m">>

\* args.baseUrl of the set_region tool
UrlInputs ==
    { Url(<<"e","u">>),                                   \* a known region URL
      Url(<<"m","y","-","c","o">>),                       \* matches the pattern
      <<"e","u">> \o VENDOR_SUFFIX,                       \* no scheme
      HTTP_PREFIX \o <<"e","u">> \o VENDOR_SUFFIX,        \* http
      <<"H","T","T","P","S",":","/","/">> \o <<"e","u">> \o VENDOR_SUFFIX,
      EVIL_URL,
      Url(<<"a",".","b">>),                               \* two labels
      Url(<<"e","u">>) \o <<"/">>,                        \* trailing slash
      Url(<<"e","u">>) \o <<".","e","v","i","l",".","c","o","m">>,
      HTTPS_PREFIX \o <<"e","v","i","l",".","c","o","m","/">> \o VENDOR_SUFFIX,
      HTTPS_PREFIX \o VENDOR_SUFFIX }                     \* empty subdomain

\* args.region of the set_region tool
RegionInputs == { <<"e","u">>, <<"E","U">>, <<"x","x">> }

SetRegionArgs ==
    [baseUrl : UrlInputs, region : {<< >>}]
        \cup [baseUrl : {<< >>}, region : RegionInputs \cup {<< >>}]
        \cup { [baseUrl |-> EVIL_URL \o <<"/">>, region |-> <<"e","u">>] }

(***************************************************************************)
(* State.                                                                  *)
(***************************************************************************)
VARIABLES
    env,              \* process.env, fixed at process start
    baseUrl,          \* NinjaOneAPI.baseUrl; << >> is null
    baseUrlExplicit,  \* NinjaOneAPI.baseUrlExplicit
    accessToken,      \* NinjaOneAPI.accessToken; NullToken is null
    tokenExpiry,      \* NinjaOneAPI.tokenExpiry; NullExpiry is null
    isConfigured,     \* NinjaOneAPI.isConfigured
    clientSecret,     \* NinjaOneAPI.clientSecret
    now,              \* Date.now()
    call,             \* the getAccessToken calls: position, locals, outcome
    lastSet,          \* the set_region tool call this step made, if it made one:
                      \* arguments, outcome, whether a usable token was cached
    events,           \* calls started, set_region calls and clock ticks so far
    req,              \* the makeRequest calls: position, locals, outcome
    mcpAuthToken,     \* process.env.MCP_AUTH_TOKEN; << >> is unset
    transports,       \* the Map of createHttpServer: session id -> transport
    heap,             \* the StreamableHTTPServerTransport objects built so far
    uuids,            \* how many identifiers randomUUID has handed out
    http,             \* the /mcp handlers suspended at an await
    lastReq,          \* the HTTP request this step took in or finished, and
                      \* what the gateway answered
    tornDown,         \* the session ids whose DELETE has completed
    toolCalls,        \* per makeRequest call: the transport of the session
                      \* whose tool handler made it (0: none)
    tool              \* the CallTool request a ToolHandler is running: its
                      \* position, its locals, what it asked of the client,
                      \* what it gave its caller

vars == <<env, baseUrl, baseUrlExplicit, accessToken, tokenExpiry, isConfigured,
          clientSecret, now, call, lastSet, events, req,
          mcpAuthToken, transports, heap, uuids, http, lastReq, tornDown,
          toolCalls, tool>>

upstreamVars == <<req>>
gatewayVars ==
    <<mcpAuthToken, transports, heap, uuids, http, lastReq, tornDown, toolCalls,
      tool>>

cacheVars == <<baseUrl, baseUrlExplicit, accessToken, tokenExpiry>>
configVars == <<env, isConfigured, clientSecret>>

NoSet ==
    [args |-> [baseUrl |-> << >>, region |-> << >>], outcome |-> "none",
     hadUsable |-> FALSE]

NullExpiry == -1
NullToken == [iss |-> << >>, at |-> 0]

\* a token as issued: by which endpoint, when
Token(url, at) == [iss |-> url, at |-> at]

NoResult == [kind |-> "none", token |-> NullToken, message |-> << >>]
Returned(tok) == [kind |-> "token", token |-> tok, message |-> << >>]
Thrown(msg) == [kind |-> "error", token |-> NullToken, message |-> msg]

IdleCall ==
    [pc |-> "idle", mode |-> "none", candidates |-> << >>, tried |-> << >>,
     target |-> << >>, sent |-> << >>, timers |-> 0,
     result |-> NoResult]

\* what makeRequest gave its caller: nothing yet, a value, or an error
UNDEFINED == JsonValue("undefined", 0, << >>)
NoOutcome == [kind |-> "none", value |-> UNDEFINED, status |-> 0, message |-> << >>]
Parsed(value) == [kind |-> "json", value |-> value, status |-> 0, message |-> << >>]
SUCCESS_MARKER ==
    [kind |-> "success", value |-> UNDEFINED, status |-> 0, message |-> << >>]
Failed(msg) == [kind |-> "error", value |-> UNDEFINED, status |-> 0, message |-> msg]

IdleReq ==
    [pc |-> "idle", method |-> << >>, base |-> << >>, bearer |-> NullToken,
     status |-> 0, sent |-> 0, timer |-> FALSE, text |-> << >>,
     result |-> NoOutcome]

\* no /mcp handler is suspended in this slot; a suspended handler holds its
\* local transport, and its local sessionId where it reads it again (line 137)
IdleHttp == [pc |-> "idle", sessionId |-> 0, t |-> 0]

\* this step took in no HTTP request and finished none
NoReq ==
    [kind |-> "none", request |-> << >>, status |-> 0, message |-> "", t |-> 0,
     sessions |-> 0]

\* a JavaScript number in thousandths; NaN and the infinities are not finite
Number(milli) == [type |-> "number", finite |-> TRUE, milli |-> milli]
NaN == [type |-> "number", finite |-> FALSE, milli |-> 0]
NotNumber(type) == [type |-> type, finite |-> FALSE, milli |-> 0]

\* a JavaScript value where a string is expected: a string, or something else
String(text) == [isString |-> TRUE, text |-> text]
NOT_A_STRING == [isString |-> FALSE, text |-> << >>]

\* args.duration: its typeof (null apart), and its members
Duration(type, permanent, value, unit) ==
    [type |-> type, permanent |-> permanent, value |-> value, unit |-> unit]
NoDuration == Duration("undefined", FALSE, NotNumber("undefined"), NOT_A_STRING)

\* the arguments of a tool call
ToolArguments(id, mode, duration) == [id |-> id, mode |-> mode, duration |-> duration]
NoArgs == ToolArguments(NotNumber("undefined"), "", NoDuration)

\* what a tool call gave its caller: nothing yet, a content block, an McpError
NoToolResult == [kind |-> "none", code |-> "", message |-> << >>, totalDevices |-> 0]

\* no CallTool request is running
IdleTool ==
    [pc |-> "idle", name |-> "", args |-> NoArgs, sent |-> << >>, page |-> 0,
     after |-> 0, allDevices |-> << >>, served |-> << >>, result |-> NoToolResult]

\* new Map()
EmptyMap == [k \in {} |-> 0]

\* createHttpServer, lines 39-58: the process was started with this
\* MCP_AUTH_TOKEN, the Map is empty, no request is being handled
createHttpServer(token) ==
    /\ mcpAuthToken = token
    /\ transports = EmptyMap
    /\ heap = << >>
    /\ uuids = 0
    /\ http = [s \in Slots |-> IdleHttp]
    /\ lastReq = NoReq
    /\ tornDown = {}
    /\ toolCalls = [p \in Calls |-> 0]
    /\ tool = IdleTool

NOT_CONFIGURED ==
    <<"NinjaONE API not configured - NINJA_CLIENT_ID and NINJA_CLIENT_SECRET required">>

NO_CANDIDATE ==
    <<"Failed to acquire OAuth token: no candidate base URL succeeded. Tried: ">>

\* the error requestToken's caller sees when the fetch did not give a 2xx
RequestTokenError(outcome) ==
    CASE outcome.kind = "non2xx" -> <<"OAuth token request failed: ", "status">>
      [] outcome.kind = "timeout" -> <<"This operation was aborted">>
      [] OTHER -> <<"fetch failed">>

(***************************************************************************)
(* constructor                                                             *)
(***************************************************************************)
ConstructorBaseUrl(e) ==
    IF e.NINJA_BASE_URL # << >>
    THEN normalizeBaseUrl(e.NINJA_BASE_URL)
    ELSE IF /\ e.NINJA_REGION # << >>
            /\ toLowerCase(e.NINJA_REGION) \in REGION_KEYS
    THEN REGION_MAP[toLowerCase(e.NINJA_REGION)]
    ELSE << >>

NewNinjaOneAPI ==
    /\ baseUrl = ConstructorBaseUrl(env)
    /\ baseUrlExplicit = (ConstructorBaseUrl(env) # << >>)
    /\ accessToken = NullToken
    /\ tokenExpiry = NullExpiry
    /\ isConfigured = (env.NINJA_CLIENT_ID # << >> /\ env.NINJA_CLIENT_SECRET # << >>)
    /\ clientSecret = env.NINJA_CLIENT_SECRET
    /\ now = 0
    /\ call = [p \in Calls |-> IdleCall]
    /\ lastSet = NoSet
    /\ events = 0
    /\ req = [p \in Calls |-> IdleReq]

Init ==
    /\ env \in Environments
    /\ NewNinjaOneAPI
    /\ createHttpServer(<< >>)

(***************************************************************************)
(* getCandidateBaseUrls                                                    *)
(***************************************************************************)
RECURSIVE TrimmedNonEmpty(_)
TrimmedNonEmpty(list) ==
    IF list = << >> THEN << >>
    ELSE IF Trim(Head(list)) = << >> THEN TrimmedNonEmpty(Tail(list))
    ELSE <<Trim(Head(list))>> \o TrimmedNonEmpty(Tail(list))

getCandidateBaseUrls ==
    LET pieces == TrimmedNonEmpty(SplitComma(env.NINJA_BASE_URLS, << >>))
        fromEnv == [i \in 1..Len(pieces) |-> normalizeBaseUrl(pieces[i])]
    IN IF Len(fromEnv) > 0 THEN fromEnv ELSE DEFAULT_CANDIDATES

(***************************************************************************)
(* getAccessToken / requestToken                                           *)
(***************************************************************************)
\* the refresh skew of line 71, in milliseconds
RefreshSkewMs == 300000

\* a bug: the skew forgotten
CachedTokenUsable_NoSkew ==
    /\ accessToken # NullToken
    /\ tokenExpiry # NullExpiry /\ tokenExpiry # 0
    /\ now < tokenExpiry

\* this.accessToken && this.tokenExpiry && Date.now() < (this.tokenExpiry - 300000)
CachedTokenUsable ==
    /\ accessToken # NullToken
    /\ tokenExpiry # NullExpiry /\ tokenExpiry # 0
    /\ now < tokenExpiry - RefreshSkewMs

\* !this.baseUrl || !this.baseUrlExplicit
EndpointUnresolved == baseUrl = << >> \/ ~baseUrlExplicit

\* requestToken(url) up to its await of fetch: the 30 s timer is armed (line
\* 112) and the POST is on the wire
SendTokenRequest(c, url) ==
    [c EXCEPT !.pc = "awaitToken", !.target = url,
              !.sent = Append(c.sent, url),
              !.timers = c.timers + 1]

\* a bug: requestToken without its finally clause
clearTimeout_Skipped(c) == c

\* the finally clause of requestToken, lines 125-127: however the request
\* ended, its timer is armed no more
clearTimeout(c) == [c EXCEPT !.timers = c.timers - 1]

\* Which slot holds a call means nothing to the program: a new call takes the
\* lowest slot never used, or else the lowest slot whose call has ended.
FreeSlots == {p \in Calls : call[p].pc # "awaitToken"}

IdleSlots == {p \in Calls : call[p].pc = "idle"}

NextSlot(p) ==
    IF IdleSlots # {}
    THEN p \in IdleSlots /\ \A q \in IdleSlots : p <= q
    ELSE p \in FreeSlots /\ \A q \in FreeSlots : p <= q

\* a bug: the configuration check of line 67 left out
GetAccessToken_NoConfigCheck(p) ==
    /\ NextSlot(p)
    /\ events < MaxEvents
    /\ events' = events + 1
    /\ lastSet' = NoSet
    /\ UNCHANGED <<cacheVars, configVars, now>>
    /\ IF CachedTokenUsable
       THEN /\ call' = [call EXCEPT ![p] =
                  [IdleCall EXCEPT !.pc = "done",
                                   !.result = Returned(accessToken)]]
       ELSE IF EndpointUnresolved
       THEN LET candidates == getCandidateBaseUrls
            IN call' = [call EXCEPT ![p] =
                  SendTokenRequest(
                      [IdleCall EXCEPT !.mode = "sweep",
                                       !.candidates = candidates,
                                       !.tried = <<candidates[1]>>],
                      candidates[1])]
       ELSE call' = [call EXCEPT ![p] =
                  SendTokenRequest([IdleCall EXCEPT !.mode = "explicit"], baseUrl)]

\* a caller enters getAccessToken and runs to its first await, or to its end
GetAccessToken(p) ==
    /\ NextSlot(p)
    /\ events < MaxEvents
    /\ events' = events + 1
    /\ lastSet' = NoSet
    /\ UNCHANGED <<cacheVars, configVars, now>>
    /\ IF ~isConfigured
       THEN /\ call' = [call EXCEPT ![p] =
                  [IdleCall EXCEPT !.pc = "done", !.result = Thrown(NOT_CONFIGURED)]]
       ELSE IF CachedTokenUsable
       THEN /\ call' = [call EXCEPT ![p] =
                  [IdleCall EXCEPT !.pc = "done",
                                   !.result = Returned(accessToken)]]
       ELSE IF EndpointUnresolved
       THEN LET candidates == getCandidateBaseUrls
            IN call' = [call EXCEPT ![p] =
                  SendTokenRequest(
                      [IdleCall EXCEPT !.mode = "sweep",
                                       !.candidates = candidates,
                                       !.tried = <<candidates[1]>>],
                      candidates[1])]
       ELSE call' = [call EXCEPT ![p] =
                  SendTokenRequest([IdleCall EXCEPT !.mode = "explicit"], baseUrl)]

\* a bug: the first candidate pinned, not the one that answered
SweepSuccess_PinsFirst(p, outcome) ==
    LET c == clearTimeout(call[p])
        tok == Token(c.target, now)
    IN /\ baseUrl' = c.candidates[1]
       /\ baseUrlExplicit' = TRUE
       /\ accessToken' = tok
       /\ tokenExpiry' = now + outcome.expires_in * 1000
       /\ call' = [call EXCEPT ![p] = [c EXCEPT !.pc = "done",
                                                !.result = Returned(tok)]]

\* lines 82-87: the candidate answered with a token
SweepSuccess(p, outcome) ==
    LET c == clearTimeout(call[p])
        tok == Token(c.target, now)
    IN /\ baseUrl' = c.target
       /\ baseUrlExplicit' = TRUE
       /\ accessToken' = tok
       /\ tokenExpiry' = now + outcome.expires_in * 1000
       /\ call' = [call EXCEPT ![p] = [c EXCEPT !.pc = "done",
                                                !.result = Returned(tok)]]

\* a bug: the sweep gives up at the first failure
SweepFailure_GivesUp(p, outcome) ==
    LET c == clearTimeout(call[p])
    IN /\ UNCHANGED cacheVars
       /\ call' = [call EXCEPT ![p] =
             [c EXCEPT !.pc = "done",
                       !.result = Thrown(NO_CANDIDATE \o Join(c.tried))]]

\* a bug: the error names only the last candidate tried
SweepFailure_ReportsLast(p, outcome) ==
    LET c == clearTimeout(call[p])
        k == Len(c.tried)
    IN /\ UNCHANGED cacheVars
       /\ IF k < Len(c.candidates)
          THEN call' = [call EXCEPT ![p] =
                     SendTokenRequest(
                         [c EXCEPT !.tried = Append(c.tried, c.candidates[k + 1])],
                         c.candidates[k + 1])]
          ELSE call' = [call EXCEPT ![p] =
                     [c EXCEPT !.pc = "done",
                               !.result = Thrown(NO_CANDIDATE \o c.tried[k])]]
        
\* lines 88-92: the candidate failed; try the next one, or give up
SweepFailure(p, outcome) ==
    LET c == clearTimeout(call[p])
        k == Len(c.tried)
    IN /\ UNCHANGED cacheVars
       /\ IF k < Len(c.candidates)
          THEN call' = [call EXCEPT ![p] =
                     SendTokenRequest(
                         [c EXCEPT !.tried = Append(c.tried, c.candidates[k + 1])],
                         c.candidates[k + 1])]
          ELSE call' = [call EXCEPT ![p] =
                     [c EXCEPT !.pc = "done",
                               !.result = Thrown(NO_CANDIDATE \o Join(c.tried))]]
        
\* a bug: the new token stored under the expiry of the old one
ExplicitSuccess_KeepsExpiry(p, outcome) ==
    LET c == clearTimeout(call[p])
        tok == Token(c.target, now)
    IN /\ accessToken' = tok
       /\ call' = [call EXCEPT ![p] = [c EXCEPT !.pc = "done",
                                                !.result = Returned(tok)]]
       /\ UNCHANGED <<baseUrl, baseUrlExplicit, tokenExpiry>>

\* lines 95-99: the pinned endpoint answered with a token
ExplicitSuccess(p, outcome) ==
    LET c == clearTimeout(call[p])
        tok == Token(c.target, now)
    IN /\ accessToken' = tok
       /\ tokenExpiry' = now + outcome.expires_in * 1000
       /\ call' = [call EXCEPT ![p] = [c EXCEPT !.pc = "done",
                                                !.result = Returned(tok)]]
       /\ UNCHANGED <<baseUrl, baseUrlExplicit>>

\* a bug: a failed pinned endpoint falls back to the candidate list
ExplicitFailure_FallsBack(p, outcome) ==
    LET c == clearTimeout(call[p])
    IN /\ call' = [call EXCEPT ![p] =
             SendTokenRequest(c, getCandidateBaseUrls[1])]
       /\ UNCHANGED cacheVars

\* a bug: the stale token dropped when its refresh fails
ExplicitFailure_ClearsToken(p, outcome) ==
    LET c == clearTimeout(call[p])
    IN /\ call' = [call EXCEPT ![p] =
             [c EXCEPT !.pc = "done",
                       !.result = Thrown(RequestTokenError(outcome))]]
       /\ accessToken' = NullToken
       /\ tokenExpiry' = NullExpiry
       /\ UNCHANGED <<baseUrl, baseUrlExplicit>>

\* line 95: requestToken throws and getAccessToken lets it through
ExplicitFailure(p, outcome) ==
    LET c == clearTimeout(call[p])
    IN /\ call' = [call EXCEPT ![p] =
             [c EXCEPT !.pc = "done",
                       !.result = Thrown(RequestTokenError(outcome))]]
       /\ UNCHANGED cacheVars

\* the fetch of a token request settles and getAccessToken resumes
TokenResponse(p, outcome) ==
    /\ call[p].pc = "awaitToken"
    /\ lastSet' = NoSet
    /\ UNCHANGED <<configVars, now, events>>
    /\ IF call[p].mode = "sweep"
       THEN IF outcome.kind = "ok"
            THEN SweepSuccess(p, outcome)
            ELSE SweepFailure(p, outcome)
       ELSE IF outcome.kind = "ok"
            THEN ExplicitSuccess(p, outcome)
            ELSE ExplicitFailure(p, outcome)

(***************************************************************************)
(* setBaseUrl / setRegion / the set_region tool                            *)
(***************************************************************************)
\* a bug: no validation, any URL is pinned
UrlAllowed_Any(normalized) == TRUE

\* the allow-list test of setBaseUrl, on the normalized URL
UrlAllowed(normalized) ==
    \/ normalized \in Range(REGION_MAP)
    \/ ALLOWED_DOMAIN_PATTERN(normalized)

\* a bug: the cached token kept across the pin
setBaseUrl_KeepsToken(url, outcome) ==
    LET normalized == normalizeBaseUrl(url)
    IN IF ~UrlAllowed(normalized)
       THEN /\ outcome = "invalid_url"
            /\ UNCHANGED cacheVars
       ELSE /\ outcome = "ok"
            /\ baseUrl' = normalized
            /\ baseUrlExplicit' = TRUE
            /\ UNCHANGED <<accessToken, tokenExpiry>>

\* setBaseUrl(url): the outcome, and the cache fields after it
setBaseUrl(url, outcome) ==
    LET normalized == normalizeBaseUrl(url)
    IN IF ~UrlAllowed(normalized)
       THEN /\ outcome = "invalid_url"
            /\ UNCHANGED cacheVars
       ELSE /\ outcome = "ok"
            /\ baseUrl' = normalized
            /\ baseUrlExplicit' = TRUE
            /\ accessToken' = NullToken
            /\ tokenExpiry' = NullExpiry

\* setRegion(region)
setRegion(region, outcome) ==
    LET key == toLowerCase(region)
    IN IF key \notin REGION_KEYS
       THEN /\ outcome = "unknown_region"
            /\ UNCHANGED cacheVars
       ELSE setBaseUrl(REGION_MAP[key], outcome)

\* callAPIMethod, case 'set_region'
SetRegionTool(args) ==
    /\ events < MaxEvents
    /\ events' = events + 1
    /\ UNCHANGED <<configVars, now, call>>
    /\ \E outcome \in {"ok", "invalid_url", "unknown_region", "invalid_params"} :
        /\ lastSet' = [args |-> args, outcome |-> outcome,
                       hadUsable |-> CachedTokenUsable]
        /\ IF args.baseUrl # << >> THEN setBaseUrl(args.baseUrl, outcome)
           ELSE IF args.region # << >> THEN setRegion(args.region, outcome)
           ELSE /\ outcome = "invalid_params"
                /\ UNCHANGED cacheVars

(***************************************************************************)
(* The clock.                                                              *)
(***************************************************************************)
Tick ==
    /\ events < MaxEvents
    /\ events' = events + 1
    /\ now' = now + TickMs
    /\ lastSet' = NoSet
    /\ UNCHANGED <<cacheVars, configVars, call>>

\* the set_region calls of the concurrent runs: a known region URL, a URL the
\* pattern admits, a URL the allow-list rejects
ToolArgs ==
    { a \in SetRegionArgs :
        a.baseUrl \in { Url(<<"e","u">>), Url(<<"m","y","-","c","o">>), EVIL_URL } }

\* any number of callers in flight together
Next ==
    /\ \/ \E p \in Calls : GetAccessToken(p)
       \/ \E p \in Calls, outcome \in FetchOutcomes : TokenResponse(p, outcome)
       \/ \E args \in ToolArgs : SetRegionTool(args)
       \/ Tick
    /\ UNCHANGED <<upstreamVars, gatewayVars>>

Spec == Init /\ [][Next]_vars

\* one call at a time, and every argument of the set_region tool
NextSetRegion ==
    /\ \/ \E p \in Calls : FreeSlots = Calls /\ GetAccessToken(p)
       \/ \E p \in Calls, outcome \in FetchOutcomes : TokenResponse(p, outcome)
       \/ \E args \in SetRegionArgs : SetRegionTool(args)
       \/ Tick
    /\ UNCHANGED <<upstreamVars, gatewayVars>>

SpecSetRegion == Init /\ [][NextSetRegion]_vars

(***************************************************************************)
(* makeRequest: one upstream call. It awaits getAccessToken, then the      *)
(* fetch of the business request under a 30 s abort timer, then the text   *)
(* of the response, after the timer has been cleared.                      *)
(***************************************************************************)
\* the HTTP methods of the calls
Methods == { <<"G","E","T">>, <<"D","E","L","E","T","E">> }

\* how the fetch of the business request settles: response headers with a
\* status, the abort after 30 s, a network error
BusinessOutcomes ==
    [kind : {"response"}, status : {200, 204, 500}]
        \cup [kind : {"timeout", "network"}, status : {0}]

\* how the token request of an upstream call settles
UpstreamTokenOutcomes ==
    { o \in FetchOutcomes :
        o.kind \in {"ok", "non2xx", "timeout"} /\ o.expires_in \in {0, 600} }

\* the text of a response body: empty, blank, not JSON, JSON (an object, null)
BodyTexts ==
    { << >>, <<" ">>, <<"O", "K">>, METHOD_MEMBER \o <<"x", "\"", "}">>,
      <<"n", "u", "l", "l">> }

API_REQUEST_FAILED == <<"API request failed: ">>

\* response.ok
ResponseOk(status) == status >= 200 /\ status <= 299

\* lines 151-176: getAccessToken has settled for p in this step; makeRequest
\* rethrows its error, or reads the base URL, arms its timer and sends the
\* business request
AfterGetAccessToken(p, r) ==
    LET c == call'[p]
    IN IF c.pc # "done" THEN [r EXCEPT !.pc = "token"]
       ELSE IF c.result.kind = "error"
       THEN [r EXCEPT !.pc = "done", !.result = Failed(c.result.message)]
       ELSE [r EXCEPT !.pc = "awaitFetch",
                      !.bearer = c.result.token,
                      !.base = IF baseUrl' # << >> THEN baseUrl'
                               ELSE DEFAULT_CANDIDATES[1],
                      !.sent = r.sent + 1,
                      !.timer = TRUE]

\* a caller enters makeRequest and runs to its first pending await
MakeRequest(p, method) ==
    /\ req[p].pc \in {"idle", "done"}
    /\ GetAccessToken(p)
    /\ req' = [req EXCEPT ![p] =
           AfterGetAccessToken(p, [IdleReq EXCEPT !.method = method])]

\* the token request of an upstream call settles
UpstreamTokenResponse(p, outcome) ==
    /\ req[p].pc = "token"
    /\ TokenResponse(p, outcome)
    /\ req' = [req EXCEPT ![p] = AfterGetAccessToken(p, req[p])]

\* lines 174-187: the fetch of the business request settles; the finally
\* clause clears the timer
BusinessResponse(p, outcome) ==
    LET r == req[p]
    IN /\ r.pc = "awaitFetch"
       /\ lastSet' = NoSet
       /\ UNCHANGED <<cacheVars, configVars, now, call, events>>
       /\ req' = [req EXCEPT ![p] =
              IF outcome.kind = "timeout"
              THEN [r EXCEPT !.pc = "done", !.timer = FALSE,
                             !.result = Failed(<<"This operation was aborted">>)]
              ELSE IF outcome.kind = "network"
              THEN [r EXCEPT !.pc = "done", !.timer = FALSE,
                             !.result = Failed(<<"fetch failed">>)]
              ELSE IF /\ ResponseOk(outcome.status)
                      /\ r.method = <<"D","E","L","E","T","E">>
                      /\ outcome.status = 204
              THEN [r EXCEPT !.pc = "done", !.timer = FALSE,
                             !.status = outcome.status,
                             !.result = SUCCESS_MARKER]
              ELSE [r EXCEPT !.pc = "awaitBody", !.timer = FALSE,
                             !.status = outcome.status]]

\* a bug: the SyntaxError of JSON.parse reaches the caller
ResponseBody_Throws(p, text) ==
    LET r == [req[p] EXCEPT !.text = text]
    IN /\ r.pc = "awaitBody"
       /\ lastSet' = NoSet
       /\ UNCHANGED <<cacheVars, configVars, now, call, events>>
       /\ req' = [req EXCEPT ![p] =
              IF ~ResponseOk(r.status)
              THEN [r EXCEPT !.pc = "done",
                             !.result = [Failed(API_REQUEST_FAILED \o text)
                                           EXCEPT !.status = r.status]]
              ELSE IF text = << >> \/ Len(Trim(text)) = 0
              THEN [r EXCEPT !.pc = "done", !.result = SUCCESS_MARKER]
              ELSE IF JSON_parse(text) = JSON_SYNTAX_ERROR
              THEN [r EXCEPT !.pc = "done",
                             !.result = Failed(<<"Unexpected token">>)]
              ELSE [r EXCEPT !.pc = "done", !.result = Parsed(JSON_parse(text))]]

\* lines 181-199: response.text() settles with the text of the body
ResponseBody(p, text) ==
    LET r == [req[p] EXCEPT !.text = text]
    IN /\ r.pc = "awaitBody"
       /\ lastSet' = NoSet
       /\ UNCHANGED <<cacheVars, configVars, now, call, events>>
       /\ req' = [req EXCEPT ![p] =
              IF ~ResponseOk(r.status)
              THEN [r EXCEPT !.pc = "done",
                             !.result = [Failed(API_REQUEST_FAILED \o text)
                                           EXCEPT !.status = r.status]]
              ELSE IF text = << >> \/ Len(Trim(text)) = 0
              THEN [r EXCEPT !.pc = "done", !.result = SUCCESS_MARKER]
              ELSE IF JSON_parse(text) = JSON_SYNTAX_ERROR
              THEN [r EXCEPT !.pc = "done", !.result = SUCCESS_MARKER]
              ELSE [r EXCEPT !.pc = "done", !.result = Parsed(JSON_parse(text))]]

\* the 30 s timer of a token request fires
TokenTimeout ==
    \E p \in Calls :
        UpstreamTokenResponse(p, [kind |-> "timeout", expires_in |-> 0])

\* the 30 s timer of a business request fires
FetchTimeout ==
    \E p \in Calls : BusinessResponse(p, [kind |-> "timeout", status |-> 0])

\* no upstream call is under way
UpstreamQuiet == \A q \in Calls : req[q].pc \in {"idle", "done"}

\* upstream calls, one after the other
NextUpstream ==
    /\ \/ \E p \in Calls, method \in Methods : UpstreamQuiet /\ MakeRequest(p, method)
       \/ \E p \in Calls, outcome \in UpstreamTokenOutcomes :
              UpstreamTokenResponse(p, outcome)
       \/ \E p \in Calls, outcome \in BusinessOutcomes : BusinessResponse(p, outcome)
       \/ \E p \in Calls, text \in BodyTexts : ResponseBody(p, text)
    /\ UNCHANGED gatewayVars

SpecUpstream == Init /\ [][NextUpstream]_vars

\* an armed timer fires unless the request settles first; nothing obliges the
\* upstream to answer
SpecUpstreamLive ==
    /\ Init
    /\ [][NextUpstream]_vars
    /\ WF_vars(TokenTimeout /\ UNCHANGED gatewayVars)
    /\ WF_vars(FetchTimeout /\ UNCHANGED gatewayVars)

(***************************************************************************)
(* The Streamable HTTP gateway (createHttpServer): the middleware chain    *)
(* cors, express.json, express.text, tokenAuth, then GET /health and the   *)
(* /mcp handler. The transport class and the protocol server come from the *)
(* MCP SDK: whether a transport accepts a request, refuses it or throws,   *)
(* and when it closes, is the environment's choice.                        *)
(***************************************************************************)
\* a character whose UTF-8 encoding takes two bytes while its length is one
E_ACUTE == "U+00E9"

\* Buffer.from(s).length
RECURSIVE Utf8Length(_)
Utf8Length(s) ==
    IF s = << >> THEN 0
    ELSE (IF Head(s) = E_ACUTE THEN 2 ELSE 1) + Utf8Length(Tail(s))

AUTH_SECRET == <<"s", "3">>

\* values of MCP_AUTH_TOKEN: unset, a secret, the secret with blanks around it
AuthTokens == { << >>, AUTH_SECRET, <<" ">> \o AUTH_SECRET \o <<" ">> }

\* req.query.token: absent (or not a string), or a string
NO_TOKEN == [isString |-> FALSE, text |-> << >>]
QueryToken(text) == [isString |-> TRUE, text |-> text]

QueryTokens ==
    { NO_TOKEN, QueryToken(AUTH_SECRET), QueryToken(<<"s", "4">>),
      QueryToken(<<"s">>), QueryToken(<<"s", E_ACUTE>>) }

\* the mcp-session-id header: 0 is no header; UNKNOWN_SID was never issued
UNKNOWN_SID == 99
SessionIds == {0, 1, 2, UNKNOWN_SID}

INITIALIZE == <<"i","n","i","t","i","a","l","i","z","e">>
PING == <<"p","i","n","g">>

\* req.body as the body parsers leave it
EMPTY_OBJECT == JsonValue("object", 0, << >>)
INITIALIZE_MESSAGE == JsonValue("object", 1, INITIALIZE)
PING_MESSAGE == JsonValue("object", 1, PING)
TextBody(text) == JsonValue("string", Len(text), text)
\* a body sent as application/json that express.json cannot parse
MALFORMED_JSON == JsonValue("malformed", 0, << >>)

\* bodies that are an initialize message, as an object or as text
InitializeBodies ==
    { INITIALIZE_MESSAGE, TextBody(METHOD_MEMBER \o INITIALIZE \o <<"\"", "}">>) }

\* bodies that are another protocol message
MessageBodies ==
    { PING_MESSAGE, TextBody(METHOD_MEMBER \o PING \o <<"\"", "}">>) }

\* bodies that are empty: no body, {} or the text {}
EmptyBodies == { EMPTY_OBJECT, TextBody(<<"{", "}">>), TextBody(<<"n","u","l","l">>) }

\* bodies that are not JSON
UnparsedBodies == { TextBody(<<"h","e","l","l","o">>), MALFORMED_JSON }

Bodies == InitializeBodies \cup MessageBodies \cup EmptyBodies \cup UnparsedBodies

HttpMethods == {"GET", "POST", "DELETE", "PUT", "OPTIONS"}
Paths == {"/health", "/mcp"}

HttpRequest(path, method, token, sid, body) ==
    [path |-> path, method |-> method, token |-> token, sid |-> sid, body |-> body]

\* the requests sent to the server. On both paths, every token with a GET
\* and a POST that name session 1, and the other methods with and without the
\* right token; on /mcp with the right token, the session headers and the
\* bodies.
GateRequests ==
    { HttpRequest(path, method, token, 1,
                  IF method = "POST" THEN PING_MESSAGE ELSE EMPTY_OBJECT) :
        path \in Paths, method \in {"GET", "POST"}, token \in QueryTokens }
    \cup { HttpRequest("/mcp", method, token, 1, EMPTY_OBJECT) :
             method \in {"DELETE", "PUT", "OPTIONS"},
             token \in {NO_TOKEN, QueryToken(AUTH_SECRET)} }

SessionRequests ==
    { HttpRequest("/mcp", "POST", QueryToken(AUTH_SECRET), sid, body) :
        sid \in SessionIds, body \in {INITIALIZE_MESSAGE, PING_MESSAGE} }
    \cup { HttpRequest("/mcp", "POST", QueryToken(AUTH_SECRET), sid, body) :
             sid \in {0, 1}, body \in Bodies }
    \cup { HttpRequest("/mcp", method, QueryToken(AUTH_SECRET), sid, EMPTY_OBJECT) :
             method \in {"GET", "DELETE"}, sid \in SessionIds }

Requests == GateRequests \cup SessionRequests

\* the answers the gateway gives itself
HEALTHY == "healthy"
UNAUTHORIZED == "Invalid or missing token"
BAD_BODY == "Request body is empty or not valid JSON"
INVALID_SESSION == "Invalid or missing session ID"
METHOD_NOT_ALLOWED == "Method Not Allowed"

Answer(r, status, message) ==
    [kind |-> "arrive", request |-> r, status |-> status, message |-> message,
     t |-> 0, sessions |-> 0]

\* tokenAuth, lines 19-33. timingSafeEqual throws a RangeError when its two
\* buffers differ in byte length.
tokenAuth(r) ==
    LET expected == Trim(mcpAuthToken)
        provided == IF r.token.isString THEN r.token.text ELSE << >>
    IN IF expected = << >> THEN "next"
       ELSE IF r.path = "/health" THEN "next"
       ELSE IF Len(provided) = Len(expected)
       THEN IF Utf8Length(provided) # Utf8Length(expected) THEN "RangeError"
            ELSE IF provided = expected THEN "next" ELSE "401"
       ELSE "401"

\* lines 78-81: a string body is parsed, and left as it is when that fails
ParsedBody(body) ==
    IF body.type = "string"
    THEN IF JSON_parse(body.text) = JSON_SYNTAX_ERROR THEN body
         ELSE JSON_parse(body.text)
    ELSE body

\* !body
Falsy(v) ==
    \/ v.type \in {"undefined", "null"}
    \/ v.type = "string" /\ v.size = 0
    \/ v.type = "number" /\ v.text = <<"0">>

\* line 82
BodyRejected(v) == Falsy(v) \/ (v.type = "object" /\ v.size = 0)

\* isInitializeRequest of the SDK: a request object whose method is initialize
isInitializeRequest(v) == v.type = "object" /\ v.text = INITIALIZE

\* a bug: only the header is looked at, not the Map
SessionMissing_HeaderOnly(sid) == sid = 0

\* !sessionId || !transports.has(sessionId)
SessionMissing(sid) == sid = 0 \/ sid \notin DOMAIN transports

\* a bug: the generator hands out its last identifier again
randomUUID_Repeats == IF uuids = 0 THEN uuids + 1 ELSE uuids

\* randomUUID(): an identifier never handed out before
randomUUID == uuids + 1

\* transports.get(sid); 0 is undefined
MapGet(map, sid) == IF sid \in DOMAIN map THEN map[sid] ELSE 0

\* transports.delete(sid)
MapDelete(map, sid) == [k \in DOMAIN map \ {sid} |-> map[k]]

\* transports.set(sid, t)
MapSet(map, sid, t) == [k \in DOMAIN map \cup {sid} |-> IF k = sid THEN t ELSE map[k]]

\* the handlers now inside handleRequest of transport t
InHandler(t) ==
    {s \in Slots : http[s].t = t /\ http[s].pc \in {"initialize", "handle", "delete"}}

\* the lowest slot with no suspended handler takes the next one
FreeSlot(s) ==
    /\ http[s].pc = "idle"
    /\ \A s2 \in Slots : http[s2].pc = "idle" => s <= s2

\* a bug: an initialize message that names a known session is handed to it
Route_InitializeReuses(r) ==
    IF r.method = "POST"
    THEN IF BodyRejected(ParsedBody(r.body)) THEN "badBody"
         ELSE IF SessionMissing(r.sid)
         THEN IF isInitializeRequest(ParsedBody(r.body)) THEN "initialize"
              ELSE "noSession"
         ELSE "delegate"
    ELSE IF r.method \in {"GET", "DELETE"}
    THEN IF SessionMissing(r.sid) THEN "noSession" ELSE "delegate"
    ELSE "notAllowed"

\* which branch of the /mcp handler a request takes (lines 76-141)
Route(r) ==
    IF r.method = "POST"
    THEN IF BodyRejected(ParsedBody(r.body)) THEN "badBody"
         ELSE IF isInitializeRequest(ParsedBody(r.body)) THEN "initialize"
         ELSE IF SessionMissing(r.sid) THEN "noSession"
         ELSE "delegate"
    ELSE IF r.method \in {"GET", "DELETE"}
    THEN IF SessionMissing(r.sid) THEN "noSession" ELSE "delegate"
    ELSE "notAllowed"

\* a bug: the return after the error answer is missing, and the handler goes
\* on to hand the request to the transport its header names
Reply_FallsThrough(r, status, message) ==
    /\ lastReq' = Answer(r, status, message)
    /\ http' = IF r.sid \in DOMAIN transports
               THEN [http EXCEPT ![CHOOSE s \in Slots : FreeSlot(s)] =
                        [pc |-> "handle", sessionId |-> 0, t |-> transports[r.sid]]]
               ELSE http
    /\ UNCHANGED <<transports, heap>>

\* the gateway answers the request itself and suspends no handler
Reply(r, status, message) ==
    /\ lastReq' = Answer(r, status, message)
    /\ UNCHANGED <<transports, heap, http>>

\* lines 73-141, to the first await or to the answer
McpHandler(r, s) ==
    LET route == Route(r)
    IN IF route = "badBody" THEN Reply(r, 400, BAD_BODY)
       ELSE IF route = "noSession" THEN Reply(r, 400, INVALID_SESSION)
       ELSE IF route = "notAllowed" THEN Reply(r, 405, METHOD_NOT_ALLOWED)
       ELSE IF route = "initialize"
       THEN \* lines 90-100: a new transport, its onclose, a new server, and
            \* the await of mcpServer.connect
            /\ heap' = Append(heap, [sessionId |-> 0, closed |-> FALSE,
                                     connected |-> FALSE])
            /\ http' = [http EXCEPT ![s] =
                   [pc |-> "connect", sessionId |-> 0, t |-> Len(heap) + 1]]
            /\ lastReq' = [Answer(r, 0, "") EXCEPT !.t = Len(heap) + 1]
            /\ UNCHANGED transports
       ELSE IF MapGet(transports, r.sid) = 0
       THEN Reply(r, 500, "TypeError")    \* undefined.handleRequest
       ELSE \* lines 115, 125, 136: transports.get(sessionId)!.handleRequest
            /\ http' = [http EXCEPT ![s] =
                   [pc |-> IF r.method = "DELETE" THEN "delete" ELSE "handle",
                    sessionId |-> IF r.method = "DELETE" THEN r.sid ELSE 0,
                    t |-> MapGet(transports, r.sid)]]
            /\ lastReq' = [Answer(r, 0, "") EXCEPT !.t = MapGet(transports, r.sid)]
            /\ UNCHANGED <<transports, heap>>

apiVars == <<cacheVars, configVars, now, call, lastSet, req>>

\* a bug: the count of every transport ever built
activeSessions_CountsTransports == Len(heap)

\* transports.size, line 68
activeSessions == Cardinality(DOMAIN transports)

\* the middleware chain and the route of an HTTP request, to the answer or
\* to the first await
Accept(r, s) ==
    /\ FreeSlot(s)
    /\ UNCHANGED <<apiVars, toolCalls, tool, mcpAuthToken, uuids, tornDown>>
    /\ IF r.method = "OPTIONS"
       THEN Reply(r, 204, "")                       \* cors, lines 45-51
       ELSE IF r.body = MALFORMED_JSON
       THEN Reply(r, 400, "entity.parse.failed")    \* express.json, line 53
       ELSE IF tokenAuth(r) = "401" THEN Reply(r, 401, UNAUTHORIZED)
       ELSE IF tokenAuth(r) = "RangeError"
       THEN Reply(r, 500, "RangeError")             \* the default error handler
       ELSE IF r.path = "/health"
       THEN IF r.method = "GET"
            THEN /\ lastReq' = [Answer(r, 200, HEALTHY) EXCEPT
                                   !.sessions = activeSessions]
                 /\ UNCHANGED <<transports, heap, http>>
            ELSE Reply(r, 404, "")
       ELSE McpHandler(r, s)

\* an HTTP request arrives
Arrive(r, s) ==
    /\ events < MaxEvents
    /\ events' = events + 1
    /\ Accept(r, s)

\* a handler's await has settled: what the step reports
Settled(s, status, message) ==
    [kind |-> "settle", request |-> << >>, status |-> status,
     message |-> message, t |-> http[s].t, sessions |-> 0]

\* a bug: mcpServer.connect is not awaited, and handleRequest is called while
\* the server is still connecting
ConnectDone_NotAwaited(s, accepted) ==
    LET t == http[s].t
    IN /\ http[s].pc = "connect"
       /\ http' = [http EXCEPT ![s].pc = "initialize"]
       /\ heap' = [heap EXCEPT ![t].sessionId = IF accepted THEN randomUUID ELSE 0]
       /\ uuids' = IF accepted THEN uuids + 1 ELSE uuids
       /\ lastReq' = NoReq
       /\ UNCHANGED <<apiVars, toolCalls, tool, events, mcpAuthToken, transports, tornDown>>

\* lines 100-101: mcpServer.connect has settled and transport.handleRequest
\* is called with the initialize message; the transport mints its session
\* id when it accepts the message
ConnectDone(s, accepted) ==
    LET t == http[s].t
    IN /\ http[s].pc = "connect"
       /\ http' = [http EXCEPT ![s].pc = "initialize"]
       /\ heap' = [heap EXCEPT ![t].connected = TRUE,
                               ![t].sessionId = IF accepted THEN randomUUID ELSE 0]
       /\ uuids' = IF accepted THEN uuids + 1 ELSE uuids
       /\ lastReq' = NoReq
       /\ UNCHANGED <<apiVars, toolCalls, tool, events, mcpAuthToken, transports, tornDown>>

\* a bug: the server of a new session is given an upstream client of its
\* own, and the token the shared client had cached is lost
InitializeDone_NewClient(s, outcome) ==
    LET t == http[s].t
    IN /\ http[s].pc = "initialize"
       /\ http' = [http EXCEPT ![s] = IdleHttp]
       /\ transports' =
              IF outcome = "ok" /\ heap[t].sessionId # 0
              THEN MapSet(transports, heap[t].sessionId, t)
              ELSE transports
       /\ lastReq' = Settled(s, IF outcome = "ok" THEN 200 ELSE 500, outcome)
       /\ accessToken' = NullToken
       /\ tokenExpiry' = NullExpiry
       /\ UNCHANGED <<baseUrl, baseUrlExplicit, configVars, now, call, lastSet, req>>
       /\ UNCHANGED <<toolCalls, tool, events, mcpAuthToken, heap, uuids, tornDown>>

\* lines 101-106: handleRequest has settled in the initialize branch
InitializeDone(s, outcome) ==
    LET t == http[s].t
    IN /\ http[s].pc = "initialize"
       /\ http' = [http EXCEPT ![s] = IdleHttp]
       /\ transports' =
              IF outcome = "ok" /\ heap[t].sessionId # 0
              THEN MapSet(transports, heap[t].sessionId, t)
              ELSE transports
       /\ lastReq' = Settled(s, IF outcome = "ok" THEN 200 ELSE 500, outcome)
       /\ UNCHANGED <<apiVars, toolCalls, tool, events, mcpAuthToken, heap, uuids, tornDown>>

\* lines 115-116 and 125-126: handleRequest has settled for a POST or a GET
\* of a session
HandleDone(s, outcome) ==
    /\ http[s].pc = "handle"
    /\ http' = [http EXCEPT ![s] = IdleHttp]
    /\ lastReq' = Settled(s, IF outcome = "ok" THEN 200 ELSE 500, outcome)
    /\ UNCHANGED <<apiVars, toolCalls, tool, events, mcpAuthToken, transports, heap, uuids, tornDown>>

\* transport.onclose, lines 94-97
onclose(map, t) ==
    IF heap[t].sessionId # 0 THEN MapDelete(map, heap[t].sessionId) ELSE map

\* a bug: the teardown leaves the Map as it is
DeleteDone_KeepsMapping(s, outcome) ==
    LET t == http[s].t
        sid == http[s].sessionId
    IN /\ http[s].pc = "delete"
       /\ http' = [http EXCEPT ![s] = IdleHttp]
       /\ heap' = IF outcome = "closed" THEN [heap EXCEPT ![t].closed = TRUE]
                  ELSE heap
       /\ transports' = transports
       /\ tornDown' = IF outcome = "throws" THEN tornDown ELSE tornDown \cup {sid}
       /\ lastReq' = Settled(s, IF outcome = "throws" THEN 500 ELSE 200, outcome)
       /\ UNCHANGED <<apiVars, toolCalls, tool, events, mcpAuthToken, uuids>>

\* a bug: the teardown waits until no upstream call is under way
DeleteDone_WaitsForUpstream(s, outcome) ==
    LET t == http[s].t
        sid == http[s].sessionId
    IN /\ UpstreamQuiet
       /\ http[s].pc = "delete"
       /\ http' = [http EXCEPT ![s] = IdleHttp]
       /\ heap' = IF outcome = "closed" THEN [heap EXCEPT ![t].closed = TRUE]
                  ELSE heap
       /\ transports' =
              IF outcome = "closed" THEN MapDelete(onclose(transports, t), sid)
              ELSE IF outcome = "refused" THEN MapDelete(transports, sid)
              ELSE transports
       /\ tornDown' = IF outcome = "throws" THEN tornDown ELSE tornDown \cup {sid}
       /\ lastReq' = Settled(s, IF outcome = "throws" THEN 500 ELSE 200, outcome)
       /\ UNCHANGED <<apiVars, toolCalls, tool, events, mcpAuthToken, uuids>>

\* lines 136-138: handleRequest has settled for a DELETE. The transport has
\* closed itself (and called onclose), or has refused the request and stays
\* open, or has thrown.
DeleteDone(s, outcome) ==
    LET t == http[s].t
        sid == http[s].sessionId
    IN /\ http[s].pc = "delete"
       /\ http' = [http EXCEPT ![s] = IdleHttp]
       /\ heap' = IF outcome = "closed" THEN [heap EXCEPT ![t].closed = TRUE]
                  ELSE heap
       /\ transports' =
              IF outcome = "closed" THEN MapDelete(onclose(transports, t), sid)
              ELSE IF outcome = "refused" THEN MapDelete(transports, sid)
              ELSE transports
       /\ tornDown' = IF outcome = "throws" THEN tornDown ELSE tornDown \cup {sid}
       /\ lastReq' = Settled(s, IF outcome = "throws" THEN 500 ELSE 200, outcome)
       /\ UNCHANGED <<apiVars, toolCalls, tool, events, mcpAuthToken, uuids>>

\* a bug: closing a session aborts the upstream calls it made
Close_CancelsCalls(t) ==
    /\ t \in 1..Len(heap)
    /\ ~heap[t].closed
    /\ heap' = [heap EXCEPT ![t].closed = TRUE]
    /\ transports' = onclose(transports, t)
    /\ lastReq' = [NoReq EXCEPT !.kind = "close", !.t = t]
    /\ req' = [p \in Calls |->
                 IF toolCalls[p] = t /\ req[p].pc \notin {"idle", "done"}
                 THEN [req[p] EXCEPT !.pc = "done", !.timer = FALSE,
                          !.result = Failed(<<"This operation was aborted">>)]
                 ELSE req[p]]
    /\ call' = [p \in Calls |->
                 IF toolCalls[p] = t /\ call[p].pc = "awaitToken"
                 THEN [call[p] EXCEPT !.pc = "done", !.timers = 0,
                          !.result = Thrown(<<"This operation was aborted">>)]
                 ELSE call[p]]
    /\ UNCHANGED <<cacheVars, configVars, now, lastSet>>
    /\ UNCHANGED <<toolCalls, tool, mcpAuthToken, uuids, http, tornDown>>

\* the transport closes and notifies: onclose runs (lines 94-97)
Close(t) ==
    /\ t \in 1..Len(heap)
    /\ ~heap[t].closed
    /\ heap' = [heap EXCEPT ![t].closed = TRUE]
    /\ transports' = onclose(transports, t)
    /\ lastReq' = [NoReq EXCEPT !.kind = "close", !.t = t]
    /\ UNCHANGED <<apiVars, toolCalls, tool, mcpAuthToken, uuids, http, tornDown>>

\* a transport closes
TransportClose(t) ==
    /\ events < MaxEvents
    /\ events' = events + 1
    /\ Close(t)

NextGateway ==
    \/ \E r \in Requests, s \in Slots : Arrive(r, s)
    \/ \E s \in Slots, accepted \in BOOLEAN : ConnectDone(s, accepted)
    \/ \E s \in Slots, outcome \in {"ok", "throws"} : InitializeDone(s, outcome)
    \/ \E s \in Slots, outcome \in {"ok", "throws"} : HandleDone(s, outcome)
    \/ \E s \in Slots, outcome \in {"closed", "refused", "throws"} :
           DeleteDone(s, outcome)
    \/ \E t \in 1..MaxEvents : TransportClose(t)

\* the variables and credentials only
CredentialsOnly ==
    CHOOSE e \in Environments :
        /\ e.NINJA_BASE_URL = << >> /\ e.NINJA_REGION = << >>
        /\ e.NINJA_BASE_URLS = << >>
        /\ e.NINJA_CLIENT_ID # << >> /\ e.NINJA_CLIENT_SECRET # << >>

InitGateway ==
    /\ env = CredentialsOnly
    /\ NewNinjaOneAPI
    /\ \E token \in AuthTokens : createHttpServer(token)

SpecGateway == InitGateway /\ [][NextGateway]_vars

(***************************************************************************)
(* The gateway and the upstream client together. Every session's server is *)
(* built by createMCPServer(this.api) with the one NinjaOneAPI of the       *)
(* process; a tools/call message handed to a session's transport reaches    *)
(* its ToolHandler, which calls a method of that client, and the method     *)
(* calls makeRequest. The SDK decides whether handleRequest settles before  *)
(* or after the tool call has ended. In these runs the transports accept    *)
(* what they are handed, one tool call is under way at a time, and a        *)
(* request arrives when no handler is suspended: what runs together here is *)
(* the gateway and the upstream call of a session.                          *)
(***************************************************************************)
\* sessions created in one run
MaxSessions == 2

\* the variables of the gateway but the report of the step
sessionVars ==
    <<mcpAuthToken, transports, heap, uuids, http, tornDown, toolCalls, tool>>

\* the requests of these runs: initialize, tools/call for two sessions,
\* DELETE for the first, and requests the gateway refuses (no token, an empty payload,
\* and those above when their session is not registered)
SessionTraffic ==
    { HttpRequest("/mcp", "POST", QueryToken(AUTH_SECRET), 0, INITIALIZE_MESSAGE) }
    \cup { HttpRequest("/mcp", "POST", QueryToken(AUTH_SECRET), sid, PING_MESSAGE) :
             sid \in {1, 2} }
    \cup { HttpRequest("/mcp", "DELETE", QueryToken(AUTH_SECRET), 1, EMPTY_OBJECT) }
    \cup { HttpRequest("/mcp", "POST", NO_TOKEN, 1, PING_MESSAGE),
           HttpRequest("/mcp", "POST", QueryToken(AUTH_SECRET), 1, EMPTY_OBJECT) }

\* how the token request and the business request of a tool call settle
SessionTokenOutcomes ==
    { o \in FetchOutcomes :
        o.kind \in {"ok", "non2xx"} /\ o.expires_in \in {0, 600} }

SessionBusinessOutcomes == [kind : {"response"}, status : {200}]

SessionBodyTexts == { <<"{", "}">> }

\* part_000, lines 972-975 and 1052-1060: the server of the transport a POST
\* was handed to runs the tool, which calls makeRequest on the shared client
ToolCall(s, p) ==
    /\ http[s].pc = "handle"
    /\ UpstreamQuiet
    /\ MakeRequest(p, <<"G","E","T">>)
    /\ toolCalls' = [toolCalls EXCEPT ![p] = http[s].t]
    /\ lastReq' = NoReq
    /\ UNCHANGED <<mcpAuthToken, transports, heap, uuids, http, tornDown, tool>>

NextSessions ==
    \/ \E r \in SessionTraffic, s \in Slots :
           /\ Route(r) = "initialize" => Len(heap) < MaxSessions
           /\ \A s2 \in Slots : http[s2].pc = "idle"
           /\ Accept(r, s)
           /\ UNCHANGED events
    \/ \E s \in Slots : ConnectDone(s, TRUE)
    \/ \E s \in Slots : InitializeDone(s, "ok")
    \/ \E s \in Slots : HandleDone(s, "ok")
    \/ \E s \in Slots : DeleteDone(s, "closed")
    \/ \E t \in 1..MaxSessions : Close(t) /\ UNCHANGED events
    \/ \E s \in Slots, p \in Calls : ToolCall(s, p)
    \/ /\ \/ \E p \in Calls, outcome \in SessionTokenOutcomes :
                 UpstreamTokenResponse(p, outcome)
          \/ \E p \in Calls, outcome \in SessionBusinessOutcomes :
                 BusinessResponse(p, outcome)
          \/ \E p \in Calls, text \in SessionBodyTexts : ResponseBody(p, text)
       /\ lastReq' = NoReq
       /\ UNCHANGED sessionVars

\* the operator has supplied a list of candidates
SuppliedCandidates == CHOOSE e \in Environments : e.NINJA_BASE_URLS # << >>

InitSessions ==
    /\ env = SuppliedCandidates
    /\ NewNinjaOneAPI
    /\ createHttpServer(AUTH_SECRET)

SpecSessions == InitSessions /\ [][NextSessions]_vars

(***************************************************************************)
(* Upstream calls that run together with one another and with the          *)
(* set_region tool: between two awaits of one call, the steps of the other *)
(* calls and the calls of setBaseUrl take their turn.                      *)
(***************************************************************************)
NextRepin ==
    /\ \/ \E p \in Calls : MakeRequest(p, <<"G","E","T">>)
       \/ \E p \in Calls, outcome \in SessionTokenOutcomes :
              UpstreamTokenResponse(p, outcome)
       \/ \E p \in Calls, outcome \in SessionBusinessOutcomes :
              BusinessResponse(p, outcome)
       \/ \E p \in Calls, text \in SessionBodyTexts : ResponseBody(p, text)
       \/ \E args \in ToolArgs : SetRegionTool(args) /\ UNCHANGED req
    /\ UNCHANGED gatewayVars

SpecRepin == Init /\ [][NextRepin]_vars

(***************************************************************************)
(* The tool handler (ToolHandler): the CallTool request handler that       *)
(* register installs, routeToolCall, callAPIMethod, and the helpers that   *)
(* call the client more than once. The handler awaits the methods of the   *)
(* client; how such a call settles (a value or an error) is the choice of  *)
(* the upstream, and what the handler asked for is kept in tool.sent.      *)
(***************************************************************************)
\* getAllDevices, lines 1298-1299
PAGE_SIZE == 1000
MAX_PAGES == 50

\* the pages of one getAllDevices on which the upstream's answers vary in
\* the id of their last device
VariedPages == 2

MINUTES == <<"M","I","N","U","T","E","S">>
HOURS == <<"H","O","U","R","S">>
DAYS == <<"D","A","Y","S">>
WEEKS == <<"W","E","E","K","S">>

\* part_000, lines 16-21
MAINTENANCE_UNIT_SECONDS ==
    (MINUTES :> 60) @@ (HOURS :> 60 * 60) @@ (DAYS :> 24 * 60 * 60)
        @@ (WEEKS :> 7 * 24 * 60 * 60)

\* String.prototype.toUpperCase
toUpperCase(s) ==
    [i \in 1..Len(s) |->
        IF s[i] \in LowerLetters
        THEN UPPER[CHOOSE k \in 1..Len(LOWER) : LOWER[k] = s[i]]
        ELSE s[i]]

\* Math.round of num / den (den > 0): the nearest integer, halves upwards
Math_round(num, den) == (2 * num + den) \div (2 * den)

\* new McpError(code, message), new Error(message), and the content block
\* routeToolCall returns
McpError(code, message) ==
    [kind |-> "McpError", code |-> code, message |-> message, totalDevices |-> 0]
Error(message) ==
    [kind |-> "Error", code |-> "", message |-> message, totalDevices |-> 0]
Content(totalDevices) ==
    [kind |-> "content", code |-> "", message |-> << >>,
     totalDevices |-> totalDevices]

\* a call of makeRequest by a method of the client: the HTTP method, the
\* device, the query (pageSize, after; 0 is undefined) and the body
ApiRequest(method, id, pageSize, after, body) ==
    [method |-> method, id |-> id, pageSize |-> pageSize, after |-> after,
     body |-> body]
NoBody == [present |-> FALSE, start |-> 0, hasEnd |-> FALSE, end |-> 0]

\* a synchronous part of the handler ends in a throw or at an await of the
\* client
Throws(error) ==
    [kind |-> "throw", error |-> error,
     request |-> ApiRequest("", NotNumber("undefined"), 0, 0, NoBody)]
Awaits(request) == [kind |-> "await", error |-> NoToolResult, request |-> request]

\* a MaintenanceWindowSelection
Selection(permanent, seconds) ==
    [defined |-> TRUE, permanent |-> permanent, seconds |-> seconds]
NoSelection == [defined |-> FALSE, permanent |-> FALSE, seconds |-> 0]

\* ninja-api.ts, lines 268-300
setDeviceMaintenance(id, mode, duration) ==
    IF mode = "OFF"
    THEN Awaits(ApiRequest("DELETE", id, 0, 0, NoBody))
    ELSE IF ~duration.defined
    THEN Throws(Error(<<"Maintenance duration selection is required when enabling maintenance mode">>))
    ELSE LET start == (now + 5000) \div 1000
         IN Awaits(ApiRequest("PUT", id, 0, 0,
                [present |-> TRUE, start |-> start,
                 hasEnd |-> ~duration.permanent,
                 end |-> IF ~duration.permanent
                         THEN start + duration.seconds ELSE 0]))

\* a bug: the fraction of a second cut off
MaintenanceSeconds_Truncates(value, unit) ==
    (value.milli * MAINTENANCE_UNIT_SECONDS[unit]) \div 1000

\* line 1090: Math.round(value * MAINTENANCE_UNIT_SECONDS[unit])
MaintenanceSeconds(value, unit) ==
    Math_round(value.milli * MAINTENANCE_UNIT_SECONDS[unit], 1000)

\* callAPIMethod, case 'set_device_maintenance', lines 1061-1107
set_device_maintenance(args) ==
    IF args.id.type # "number"
    THEN Throws(McpError("InvalidParams", <<"Device ID must be a number">>))
    ELSE IF args.mode \notin {"ON", "OFF"}
    THEN Throws(McpError("InvalidParams", <<"Maintenance mode must be ON or OFF">>))
    ELSE IF args.mode = "OFF"
    THEN setDeviceMaintenance(args.id, args.mode, NoSelection)
    ELSE IF args.duration.type # "object"
    THEN Throws(McpError("InvalidParams",
             <<"Duration details are required when enabling maintenance mode">>))
    ELSE IF args.duration.permanent
    THEN setDeviceMaintenance(args.id, args.mode, Selection(TRUE, 0))
    ELSE LET value == args.duration.value
             unitRaw == args.duration.unit
             unit == IF unitRaw.isString THEN toUpperCase(unitRaw.text) ELSE << >>
         IN IF value.type # "number" \/ ~value.finite \/ value.milli <= 0
            THEN Throws(McpError("InvalidParams",
                     <<"Duration value must be a positive number">>))
            ELSE IF unit \notin DOMAIN MAINTENANCE_UNIT_SECONDS
            THEN Throws(McpError("InvalidParams",
                     <<"Duration unit must be one of MINUTES, HOURS, DAYS, or WEEKS">>))
            ELSE IF MaintenanceSeconds(value, unit) < 15 * 60
            THEN Throws(McpError("InvalidParams",
                     <<"Maintenance windows must be at least 15 minutes long">>))
            ELSE setDeviceMaintenance(args.id, args.mode,
                     Selection(FALSE, MaintenanceSeconds(value, unit)))

\* callAPIMethod, lines 1052-1295, to its first await or to its throw
callAPIMethod(name, args) ==
    IF name = "get_device"
    THEN Awaits(ApiRequest("GET", args.id, 0, 0, NoBody))
    ELSE IF name = "set_device_maintenance" THEN set_device_maintenance(args)
    ELSE IF name = "search_devices_by_name"
    THEN Awaits(ApiRequest("GET", NotNumber("undefined"), PAGE_SIZE, 0, NoBody))
    ELSE Throws(McpError("MethodNotFound", <<"Unknown tool: ", name>>))

\* the catch of routeToolCall, lines 1042-1047, and then the catch of the
\* CallTool handler, lines 976-982, which lets an McpError through
Caught(error) ==
    LET wrapped == McpError("InternalError", <<"API call failed: ">> \o error.message)
    IN IF wrapped.kind = "McpError" THEN wrapped
       ELSE McpError("InternalError", <<"Tool execution failed: ">> \o wrapped.message)

toolFrame ==
    <<cacheVars, configVars, now, call, lastSet, req, mcpAuthToken, transports,
      heap, uuids, http, lastReq, tornDown, toolCalls>>

\* a CallTool request arrives: the handler runs to its first await of the
\* client, or to the error it gives its caller
CallTool(name, args) ==
    /\ tool.pc \in {"idle", "done"}
    /\ events < MaxEvents
    /\ events' = events + 1
    /\ LET step == callAPIMethod(name, args)
           t == [IdleTool EXCEPT !.name = name, !.args = args]
       IN tool' = IF step.kind = "throw"
                  THEN [t EXCEPT !.pc = "done", !.result = Caught(step.error)]
                  ELSE [t EXCEPT !.pc = "await", !.sent = <<step.request>>]
    /\ UNCHANGED toolFrame

\* what the upstream answers to a page request: an empty list, something that
\* is no list, a short page, a full page (lastId 0: its last device has no id)
Batch(isArray, length, lastId) ==
    [kind |-> "value", isArray |-> isArray, length |-> length, lastId |-> lastId]

Batches ==
    { Batch(TRUE, 0, 0), Batch(FALSE, 0, 0),
      Batch(TRUE, 1, tool.after + 1),
      Batch(TRUE, PAGE_SIZE - 1, tool.after + PAGE_SIZE - 1),
      Batch(TRUE, PAGE_SIZE, tool.after + PAGE_SIZE) }
        \cup ( IF tool.page < VariedPages
               THEN { Batch(TRUE, PAGE_SIZE, 0),
                      Batch(TRUE, PAGE_SIZE, tool.after + PAGE_SIZE + 1) }
               ELSE {} )

ApiOutcomes ==
    { [kind |-> "error", isArray |-> FALSE, length |-> 0, lastId |-> 0] }
        \cup ( IF tool.name = "search_devices_by_name" THEN Batches
               ELSE { Batch(FALSE, 0, 0) } )

RECURSIVE Total(_)
Total(batches) ==
    IF batches = << >> THEN 0 ELSE Head(batches).length + Total(Tail(batches))

\* searchDevicesByName once getAllDevices has returned, lines 1316-1328
searchDevicesByName(t, devices) ==
    [t EXCEPT !.pc = "done", !.allDevices = devices,
              !.result = Content(Total(devices))]

\* a bug: the loop has no bound on its pages
getAllDevices_NoCap(t, batch) ==
    IF ~batch.isArray \/ batch.length = 0
    THEN searchDevicesByName(t, t.allDevices)
    ELSE LET allDevices == Append(t.allDevices, batch)
         IN IF batch.length < PAGE_SIZE
            THEN searchDevicesByName(t, allDevices)
            ELSE [t EXCEPT !.allDevices = allDevices,
                           !.after = batch.lastId,
                           !.page = t.page + 1,
                           !.sent = Append(t.sent,
                               ApiRequest("GET", NotNumber("undefined"),
                                          PAGE_SIZE, batch.lastId, NoBody))]

\* getAllDevices, lines 1303-1311: a page has arrived
getAllDevices(t, batch) ==
    IF ~batch.isArray \/ batch.length = 0
    THEN searchDevicesByName(t, t.allDevices)
    ELSE LET allDevices == Append(t.allDevices, batch)
         IN IF batch.length < PAGE_SIZE \/ t.page + 1 >= MAX_PAGES
            THEN searchDevicesByName(t, allDevices)
            ELSE [t EXCEPT !.allDevices = allDevices,
                           !.after = batch.lastId,
                           !.page = t.page + 1,
                           !.sent = Append(t.sent,
                               ApiRequest("GET", NotNumber("undefined"),
                                          PAGE_SIZE, batch.lastId, NoBody))]

\* the call of the client the handler awaits settles
ApiSettles(outcome) ==
    /\ tool.pc = "await"
    /\ LET t == [tool EXCEPT !.served = Append(tool.served, outcome)]
       IN tool' = IF outcome.kind = "error"
                  THEN [t EXCEPT !.pc = "done",
                           !.result = Caught(Error(<<"API request failed: ">>))]
                  ELSE IF t.name = "search_devices_by_name"
                  THEN getAllDevices(t, outcome)
                  ELSE [t EXCEPT !.pc = "done", !.result = Content(0)]
    /\ UNCHANGED <<toolFrame, events>>

\* the tools of these runs, and their arguments
ToolNames ==
    {"get_device", "set_device_maintenance", "search_devices_by_name",
     "no_such_tool"}

DurationValues ==
    { Number(14995), Number(15000), Number(14000), Number(250), Number(0),
      Number(-1000), NaN, NotNumber("string") }

DurationUnits ==
    { String(MINUTES), String(<<"m","i","n","u","t","e","s">>), String(HOURS),
      String(<<"Y","E","A","R","S">>), NOT_A_STRING }

Durations ==
    { NoDuration, Duration("null", FALSE, NotNumber("undefined"), NOT_A_STRING),
      Duration("string", FALSE, NotNumber("undefined"), NOT_A_STRING),
      Duration("object", TRUE, NotNumber("undefined"), NOT_A_STRING) }
        \cup { Duration("object", FALSE, v, u) :
                 v \in DurationValues, u \in DurationUnits }

ToolArgumentSets ==
    { ToolArguments(Number(7000), mode, duration) :
        mode \in {"ON", "OFF"}, duration \in Durations }
        \cup { ToolArguments(NotNumber("string"), "ON", NoDuration),
               ToolArguments(Number(7000), "on", NoDuration) }

\* the arguments the other tools are called with
DeviceOnly == ToolArguments(Number(7000), "", NoDuration)

NextTools ==
    \/ \E args \in ToolArgumentSets : CallTool("set_device_maintenance", args)
    \/ \E name \in ToolNames \ {"set_device_maintenance"} :
           CallTool(name, DeviceOnly)
    \/ \E outcome \in ApiOutcomes : ApiSettles(outcome)
    \/ Tick /\ UNCHANGED <<upstreamVars, gatewayVars>>

SpecTools == InitSessions /\ [][NextTools]_vars

(***************************************************************************)
(* What a step did, read off the two states.                               *)
(***************************************************************************)
\* this step is a caller entering getAccessToken
IsStart ==
    /\ events' = events + 1
    /\ now' = now
    /\ lastSet'.outcome = "none"

\* this step is a caller entering getAccessToken, and its call is p
Starts(p) ==
    /\ IsStart
    /\ NextSlot(p)
    /\ \A q \in Calls \ {p} : call'[q] = call[q]

\* this step is caller p's token request settling
Resumes(p) ==
    /\ call[p].pc = "awaitToken"
    /\ call'[p] # call[p]

InFlight == {p \in Calls : call[p].pc = "awaitToken"}

(***************************************************************************)
(* C1. Refresh collapse: concurrent getAccessToken calls that find no      *)
(* usable token share one in-flight acquisition, so at no time are two     *)
(* token requests of two callers on the wire together.                     *)
(* The code has no shared acquisition: each caller sends its own requests. *)
(***************************************************************************)
C1_RefreshCollapse == Cardinality(InFlight) <= 1

(***************************************************************************)
(* C2. Token reuse: a call on a configured cache that holds a token with   *)
(* now < expiresAt - 5 minutes returns that token and sends no token       *)
(* request; any other call sends a token request, and a call that resumes  *)
(* from a token request returns only the token that request was answered   *)
(* with.                                                                   *)
(***************************************************************************)
C2_Usable ==
    /\ accessToken # NullToken
    /\ now < tokenExpiry - 5 * 60 * 1000

C2_TokenReuse ==
    [][ /\ (IsStart /\ isConfigured) =>
             \E p \in Calls :
                /\ Starts(p)
                /\ IF C2_Usable
                   THEN /\ call'[p].pc = "done"
                        /\ call'[p].result = Returned(accessToken)
                        /\ call'[p].sent = << >>
                   ELSE /\ call'[p].pc = "awaitToken"
                        /\ Len(call'[p].sent) = 1
        /\ \A p \in Calls :
             (Resumes(p) /\ call'[p].result.kind = "token") =>
                /\ call'[p].result.token = Token(call[p].target, now)
                /\ accessToken' = call'[p].result.token
      ]_vars

\* a call has returned the cached token without sending anything
C2_Witness ==
    \E p \in Calls :
        /\ call[p].pc = "done"
        /\ call[p].result.kind = "token"
        /\ call[p].sent = << >>
        /\ call[p].result.token = accessToken

(***************************************************************************)
(* C3. Auto-detect ordering: a sweep whose requests to the candidates      *)
(* before C fail and whose request to C succeeds ends with C pinned and    *)
(* explicit; the endpoint stays explicit, a later call that needs a token  *)
(* sends its one request to the pinned endpoint, and a failure of that     *)
(* request neither unpins the endpoint nor sends anything else.            *)
(***************************************************************************)
C3_AutoDetectOrdering ==
    [][ /\ \A p \in Calls :
             (Resumes(p) /\ call[p].mode = "sweep" /\ call'[p].result.kind = "token") =>
                LET k == Len(call[p].sent)
                IN /\ call[p].sent = SubSeq(getCandidateBaseUrls, 1, k)
                   /\ baseUrl' = getCandidateBaseUrls[k]
                   /\ baseUrlExplicit'
        /\ baseUrlExplicit => baseUrlExplicit'
        /\ (IsStart /\ isConfigured /\ baseUrlExplicit /\ ~C2_Usable) =>
             \E p \in Calls :
                /\ Starts(p)
                /\ call'[p].mode = "explicit"
                /\ call'[p].sent = <<baseUrl>>
        /\ \A p \in Calls :
             (Resumes(p) /\ call[p].mode = "explicit") =>
                /\ call'[p].pc = "done"
                /\ call'[p].sent = call[p].sent
                /\ baseUrl' = baseUrl
      ]_vars

\* a sweep pinned its third candidate after two failures, and a later call's
\* request to that endpoint has failed
C3_Witness ==
    \E p, q \in Calls :
        /\ call[p].pc = "done" /\ call[p].mode = "sweep"
        /\ call[p].result.kind = "token"
        /\ Len(call[p].sent) = 3
        /\ baseUrl = getCandidateBaseUrls[3] /\ baseUrlExplicit
        /\ call[q].pc = "done" /\ call[q].mode = "explicit"
        /\ call[q].result.kind = "error"
        /\ call[q].sent = <<getCandidateBaseUrls[3]>>

(***************************************************************************)
(* C4. No endpoint flapping: once an endpoint is pinned and has issued the *)
(* cached token, no step other than a set_region call changes the pinned   *)
(* endpoint; no sweep still in flight re-pins.                              *)
(* The code lets every sweep that was started before the pin overwrite it. *)
(***************************************************************************)
C4_NoEndpointFlapping ==
    [][ (/\ baseUrlExplicit
         /\ accessToken # NullToken /\ accessToken.iss = baseUrl
         /\ lastSet'.outcome = "none") => baseUrl' = baseUrl ]_vars

(***************************************************************************)
(* C5. Endpoint pin invalidation: a successful set_region clears the       *)
(* cached token and its expiry and pins the requested endpoint as          *)
(* explicit; the next getAccessToken call sends its token request to that  *)
(* endpoint, and sends none to any other.                                  *)
(***************************************************************************)
C5_Requested(args) ==
    IF args.baseUrl # << >>
    THEN normalizeBaseUrl(args.baseUrl)
    ELSE REGION_MAP[toLowerCase(args.region)]

C5_PinInvalidation ==
    [][ /\ lastSet'.outcome = "ok" =>
             /\ accessToken' = NullToken
             /\ tokenExpiry' = NullExpiry
             /\ baseUrl' = C5_Requested(lastSet'.args)
             /\ baseUrlExplicit'
        /\ (lastSet.outcome = "ok" /\ IsStart /\ isConfigured) =>
             \E p \in Calls :
                /\ Starts(p)
                /\ call'[p].pc = "awaitToken"
                /\ call'[p].sent = <<C5_Requested(lastSet.args)>>
        /\ \A p \in Calls :
             (Resumes(p) /\ call[p].mode = "explicit") =>
                /\ call'[p].pc = "done"
                /\ call'[p].sent = call[p].sent
      ]_vars

\* set_region has just pinned an endpoint while a usable token was cached
C5_Witness ==
    /\ lastSet.outcome = "ok"
    /\ lastSet.hadUsable
    /\ accessToken = NullToken /\ tokenExpiry = NullExpiry
    /\ baseUrl = C5_Requested(lastSet.args)

(***************************************************************************)
(* C6. Token/endpoint consistency: in every reachable state the cached     *)
(* token was issued by the endpoint that is pinned.                        *)
(* The code caches the answer of a request that was in flight when         *)
(* set_region pinned another endpoint.                                     *)
(***************************************************************************)
C6_TokenMatchesEndpoint ==
    accessToken # NullToken => accessToken.iss = baseUrl

(***************************************************************************)
(* C7. Allow-list enforcement.                                             *)
(* As stated: set_region with a baseUrl succeeds exactly when the URL      *)
(* given is a known region URL or matches https://<subdomain>.ninjarmm.com.*)
(* The code tests the URL after normalizeBaseUrl, so a host given without  *)
(* a scheme is admitted.                                                   *)
(***************************************************************************)
C7_OnAllowList(u) ==
    \/ u \in Range(REGION_MAP)
    \/ ALLOWED_DOMAIN_PATTERN(u)

C7_AllowListAsStated ==
    (lastSet.outcome # "none" /\ lastSet.args.baseUrl # << >>) =>
        (lastSet.outcome = "ok" <=> C7_OnAllowList(lastSet.args.baseUrl))

(***************************************************************************)
(* C7, amended. set_region with a baseUrl whose normalized form (https://  *)
(* prepended when it has no http(s):// scheme) is neither a known region   *)
(* URL nor a match of the pattern fails, leaves the cache as it was and    *)
(* sends no request; otherwise it succeeds and pins the normalized URL as  *)
(* explicit. Neither case sends a network request.                         *)
(***************************************************************************)
C7_AllowList ==
    [][ (lastSet'.outcome # "none" /\ lastSet'.args.baseUrl # << >>) =>
            LET n == normalizeBaseUrl(lastSet'.args.baseUrl)
            IN /\ call' = call
               /\ IF C7_OnAllowList(n)
                  THEN /\ lastSet'.outcome = "ok"
                       /\ baseUrl' = n
                       /\ baseUrlExplicit'
                  ELSE /\ lastSet'.outcome = "invalid_url"
                       /\ UNCHANGED cacheVars
      ]_vars

\* set_region has just refused https://evil.example.com
C7_Witness ==
    /\ lastSet.outcome = "invalid_url"
    /\ lastSet.args.baseUrl = EVIL_URL
    /\ baseUrl # EVIL_URL

(***************************************************************************)
(* C8. Explicit endpoint is a hard pin: a call that finds the endpoint     *)
(* explicit and no usable token sends exactly one token request, to the    *)
(* pinned endpoint; when that request settles the call ends, with the      *)
(* token it was answered with or with requestToken's error, and no         *)
(* further request is sent.                                                *)
(***************************************************************************)
C8_ExplicitHardPin ==
    [][ /\ (IsStart /\ isConfigured /\ baseUrlExplicit
                /\ baseUrl # << >> /\ ~C2_Usable) =>
             \E p \in Calls :
                /\ Starts(p)
                /\ call'[p].pc = "awaitToken"
                /\ call'[p].sent = <<baseUrl>>
        /\ \A p \in Calls :
             (Resumes(p) /\ call[p].mode = "explicit") =>
                /\ call'[p].pc = "done"
                /\ call'[p].sent = call[p].sent
                /\ \/ /\ call'[p].result.kind = "token"
                      /\ call'[p].result.token = Token(call[p].sent[1], now)
                   \/ /\ call'[p].result.kind = "error"
                      /\ call'[p].result.message \in
                            {RequestTokenError(o) : o \in FetchOutcomes \ [kind : {"ok"}, expires_in : ExpiresInChoices]}
                      /\ UNCHANGED cacheVars
      ]_vars

\* a call's single request to the pinned endpoint has failed
C8_Witness ==
    \E p \in Calls :
        /\ call[p].pc = "done" /\ call[p].mode = "explicit"
        /\ call[p].result.kind = "error"
        /\ call[p].sent = <<baseUrl>>
        /\ \A q \in Calls \ {p} : call[q].pc = "idle"

(***************************************************************************)
(* C9. Sweep shape: the requests of one auto-detecting call go to the      *)
(* candidates in list order, one request per list entry; after a failure   *)
(* the call goes on to the next entry, after the last entry it gives up,   *)
(* and after a success it sends nothing more.                              *)
(***************************************************************************)
C9_SweepShape ==
    [][ \A p \in Calls :
          /\ call'[p].mode = "sweep" =>
                /\ Len(call'[p].sent) \in 1..Len(getCandidateBaseUrls)
                /\ call'[p].sent = SubSeq(getCandidateBaseUrls, 1, Len(call'[p].sent))
          /\ (Resumes(p) /\ call[p].mode = "sweep") =>
                LET k == Len(call[p].sent)
                IN \/ /\ call'[p].pc = "done"
                      /\ call'[p].result.kind = "token"
                      /\ call'[p].sent = call[p].sent
                   \/ /\ k < Len(getCandidateBaseUrls)
                      /\ call'[p].pc = "awaitToken"
                      /\ call'[p].sent = Append(call[p].sent, getCandidateBaseUrls[k + 1])
                   \/ /\ k = Len(getCandidateBaseUrls)
                      /\ call'[p].pc = "done"
                      /\ call'[p].result.kind = "error"
                      /\ call'[p].sent = call[p].sent
      ]_vars

\* a sweep is at its fourth candidate after three failures
C9_Witness ==
    \E p \in Calls :
        /\ call[p].pc = "awaitToken" /\ call[p].mode = "sweep"
        /\ call[p].sent = SubSeq(DEFAULT_CANDIDATES, 1, 4)

(***************************************************************************)
(* C10. Exhausted sweep: when the last candidate fails too, the call       *)
(* fails with an error whose message lists every candidate, in the order   *)
(* tried, and does not contain the client secret; the cache is left        *)
(* as it was, and a call that starts while the endpoint is unresolved      *)
(* sends its first request to the first candidate.                         *)
(***************************************************************************)
C10_ExhaustedSweep ==
    [][ /\ \A p \in Calls :
             (Resumes(p) /\ call[p].mode = "sweep" /\ call'[p].result.kind = "error") =>
                /\ call[p].sent = getCandidateBaseUrls
                /\ call'[p].result.message = NO_CANDIDATE \o Join(call[p].sent)
                /\ ~Contains(call'[p].result.message, clientSecret)
                /\ UNCHANGED cacheVars
        /\ (IsStart /\ isConfigured /\ ~baseUrlExplicit) =>
             \E p \in Calls :
                /\ Starts(p)
                /\ call'[p].pc = "awaitToken"
                /\ call'[p].sent = <<getCandidateBaseUrls[1]>>
      ]_vars

\* one call has exhausted the candidates and a later one is at the first again
C10_Witness ==
    \E p, q \in Calls :
        /\ call[p].pc = "done" /\ call[p].mode = "sweep"
        /\ call[p].result.kind = "error"
        /\ call[p].sent = getCandidateBaseUrls
        /\ call[q].pc = "awaitToken" /\ call[q].mode = "sweep"
        /\ call[q].sent = <<getCandidateBaseUrls[1]>>
        /\ events = 2

(***************************************************************************)
(* C11. Unconfigured fast fail: when the client id or the client secret is *)
(* absent, every getAccessToken call and every upstream call fails at once *)
(* with the configuration error and sends neither a token request nor a    *)
(* business request; and that error is not the error of any failed token   *)
(* acquisition.                                                            *)
(***************************************************************************)
C11_Unconfigured ==
    env.NINJA_CLIENT_ID = << >> \/ env.NINJA_CLIENT_SECRET = << >>

C11_UnconfiguredFastFail ==
    \A p \in Calls :
        IF C11_Unconfigured
        THEN /\ call[p].pc \in {"idle", "done"}
             /\ call[p].sent = << >>
             /\ call[p].pc = "done" => call[p].result = Thrown(NOT_CONFIGURED)
             /\ req[p].pc \in {"idle", "done"}
             /\ req[p].sent = 0 /\ ~req[p].timer
             /\ req[p].pc = "done" => req[p].result = Failed(NOT_CONFIGURED)
        ELSE /\ call[p].result.kind = "error"
                    => call[p].result.message # NOT_CONFIGURED
             /\ req[p].result.kind = "error"
                    => req[p].result.message # NOT_CONFIGURED

\* a client built without a client id has failed every upstream call made
C11_Witness ==
    /\ env.NINJA_CLIENT_ID = << >>
    /\ \A p \in Calls : req[p].pc = "done" /\ req[p].result = Failed(NOT_CONFIGURED)

(***************************************************************************)
(* The HTTP request of a step, as the claims about the gateway read it.    *)
(***************************************************************************)
\* the request carries the configured secret, or no secret is configured
Authorized(r) ==
    \/ Trim(mcpAuthToken) = << >>
    \/ r.token.isString /\ r.token.text = Trim(mcpAuthToken)

\* this step took in request r on /mcp, past the authorization gate
TakesIn(r) ==
    /\ lastReq'.kind = "arrive"
    /\ lastReq'.request = r
    /\ r.path = "/mcp"
    /\ Authorized(r)

\* this step left the registry, the transports and the suspended handlers alone
NoSessionLogic ==
    /\ transports' = transports
    /\ heap' = heap
    /\ http' = http
    /\ lastReq'.t = 0

\* request r is bound to the session its header names: a GET, a DELETE, or a
\* POST whose payload passed the body check and is not an initialize message
SessionBound(r) ==
    \/ r.method \in {"GET", "DELETE"}
    \/ /\ r.method = "POST"
       /\ r.body \notin InitializeBodies \cup EmptyBodies \cup {MALFORMED_JSON}

\* the session ids the transports built so far have been given
IssuedIds == {heap[t].sessionId : t \in 1..Len(heap)} \ {0}

(***************************************************************************)
(* C12. Initialize always creates: a POST with an initialize message gets  *)
(* a new handler whatever its session header is (absent, unknown, or that  *)
(* of a live session); the identifier its transport mints was never issued *)
(* before; and registering it adds that one fresh key, mapped to the new   *)
(* transport, and leaves every other mapping as it was.                    *)
(***************************************************************************)
C12_InitializeAlwaysCreates ==
    [][ /\ \A r \in Requests :
              (TakesIn(r) /\ r.method = "POST" /\ r.body \in InitializeBodies)
                  => /\ Len(heap') = Len(heap) + 1
                     /\ lastReq'.t = Len(heap')
                     /\ \E s \in Slots : /\ http[s].pc = "idle"
                                         /\ http'[s].pc = "connect"
                                         /\ http'[s].t = Len(heap')
                     /\ transports' = transports
        /\ \A s \in Slots :
              (http[s].pc = "connect" /\ http'[s].pc = "initialize"
                  /\ heap'[http[s].t].sessionId # 0)
                  => /\ heap'[http[s].t].sessionId \notin IssuedIds
                     /\ heap'[http[s].t].sessionId \notin DOMAIN transports
        /\ \A s \in Slots :
              (http[s].pc = "initialize" /\ http'[s].pc = "idle"
                  /\ lastReq'.message = "ok" /\ heap[http[s].t].sessionId # 0)
                  => LET k == heap[http[s].t].sessionId
                     IN /\ k \notin DOMAIN transports
                        /\ DOMAIN transports' = DOMAIN transports \cup {k}
                        /\ transports'[k] = http[s].t
                        /\ \A j \in DOMAIN transports : transports'[j] = transports[j]
      ]_vars

\* an initialize message that carried the id of a live session got a transport
\* of its own, next to that session
C12_Witness ==
    /\ lastReq.kind = "arrive"
    /\ lastReq.request.body \in InitializeBodies
    /\ lastReq.request.sid \in DOMAIN transports
    /\ lastReq.t = Len(heap)
    /\ lastReq.t # transports[lastReq.request.sid]

(***************************************************************************)
(* C13. No implicit session creation: a POST that is not an initialize     *)
(* message, a GET or a DELETE on /mcp whose session header is missing or   *)
(* not in the registry is refused, calls no handler and adds nothing to    *)
(* the registry; unless the body check refused its payload first, the      *)
(* refusal is the invalid-or-missing-session error.                        *)
(***************************************************************************)
C13_NoImplicitSession ==
    [][ \A r \in Requests :
          ( /\ TakesIn(r)
            /\ \/ r.method = "POST" /\ r.body \notin InitializeBodies
               \/ r.method \in {"GET", "DELETE"}
            /\ (r.sid = 0 \/ r.sid \notin DOMAIN transports) )
          => /\ NoSessionLogic
             /\ lastReq'.status >= 400
             /\ SessionBound(r)
                   => /\ lastReq'.status = 400
                      /\ lastReq'.message = INVALID_SESSION
      ]_vars

\* with a session registered, a GET naming an id never issued was refused
C13_Witness ==
    /\ lastReq.kind = "arrive"
    /\ lastReq.request.method = "GET"
    /\ lastReq.request.sid = UNKNOWN_SID
    /\ lastReq.message = INVALID_SESSION
    /\ DOMAIN transports # {}

(***************************************************************************)
(* C14. Session isolation: no two transports have the same session id,     *)
(* every key of the registry maps to the transport whose own session id is *)
(* that key, and a request naming session A is handed to A's transport and *)
(* to no other session's.                                                  *)
(***************************************************************************)
C14_SessionIsolation ==
    [][ /\ \A t, u \in 1..Len(heap') :
              (t # u /\ heap'[t].sessionId # 0)
                  => heap'[t].sessionId # heap'[u].sessionId
        /\ \A k \in DOMAIN transports' : heap'[transports'[k]].sessionId = k
        /\ \A s \in Slots :
              (http[s].pc = "idle" /\ http'[s].pc \in {"handle", "delete"})
                  => /\ heap[http'[s].t].sessionId = lastReq'.request.sid
                     /\ \A k \in DOMAIN transports \ {lastReq'.request.sid} :
                            http'[s].t # transports[k]
      ]_vars

\* two sessions are registered and a request for the second one was handed on
C14_Witness ==
    /\ Cardinality(DOMAIN transports) = 2
    /\ lastReq.kind = "arrive"
    /\ lastReq.request.sid = 2
    /\ lastReq.t = transports[2]
    /\ \E s \in Slots : http[s].pc = "handle" /\ http[s].t = lastReq.t

(***************************************************************************)
(* C15. Session lifecycle: once a DELETE for a known session id has        *)
(* completed, the id is not in the registry, now or later; every later     *)
(* GET, DELETE or non-initialize POST naming it gets the session error and *)
(* reaches no handler; and no transport is ever given that id again.       *)
(***************************************************************************)
C15_SessionLifecycle ==
    [][ /\ tornDown' \cap DOMAIN transports' = {}
        /\ \A r \in Requests :
              ( /\ TakesIn(r)
                /\ r.sid \in tornDown
                /\ SessionBound(r) )
              => /\ NoSessionLogic
                 /\ lastReq'.status = 400
                 /\ lastReq'.message = INVALID_SESSION
        /\ \A t \in 1..Len(heap') :
              (heap'[t].sessionId # 0 /\ (t > Len(heap) \/ heap[t].sessionId = 0))
                  => heap'[t].sessionId \notin tornDown'
      ]_vars

\* a session was torn down and a later request naming it was refused
C15_Witness ==
    /\ tornDown # {}
    /\ lastReq.kind = "arrive"
    /\ lastReq.request.sid \in tornDown
    /\ lastReq.request.method = "POST"
    /\ lastReq.request.body \in MessageBodies
    /\ lastReq.message = INVALID_SESSION

(***************************************************************************)
(* C16. Session destruction triggers: a registered session leaves the      *)
(* registry when its DELETE completes, when its transport throws while it  *)
(* handles a request, and when its transport notifies that it has closed.  *)
(***************************************************************************)
C16_DestructionTriggers ==
    [][ /\ \A s \in Slots :
              (http[s].pc = "delete" /\ http'[s].pc = "idle"
                  /\ lastReq'.message # "throws")
                  => http[s].sessionId \notin DOMAIN transports'
        /\ \A s \in Slots :
              (http[s].pc \in {"handle", "delete"} /\ http'[s].pc = "idle"
                  /\ lastReq'.message = "throws")
                  => heap[http[s].t].sessionId \notin DOMAIN transports'
        /\ lastReq'.kind = "close"
              => heap[lastReq'.t].sessionId \notin DOMAIN transports'
      ]_vars

(***************************************************************************)
(* C17. Per-session serialization: at no time are two requests of one      *)
(* session inside that session's handler together.                         *)
(***************************************************************************)
C17_PerSessionSerialization ==
    \A t \in 1..Len(heap) :
        Cardinality({s \in Slots : http[s].t = t
                                     /\ http[s].pc \in {"handle", "delete"}}) <= 1

(***************************************************************************)
(* C18. Payload validation first: a POST on /mcp whose body is not JSON or *)
(* is an empty payload gets a client error (400) with no handler call and  *)
(* no session creation, whatever its session header is, that of a live     *)
(* session included.                                                       *)
(***************************************************************************)
C18_PayloadValidationFirst ==
    [][ \A r \in Requests :
          ( /\ lastReq'.kind = "arrive" /\ lastReq'.request = r
            /\ r.path = "/mcp" /\ r.method = "POST"
            /\ Authorized(r)
            /\ r.body \in EmptyBodies \cup UnparsedBodies )
          => /\ NoSessionLogic
             /\ lastReq'.status = 400
      ]_vars

(***************************************************************************)
(* C19. Authorization gate: with a secret configured, a request on any     *)
(* path but /health whose token is missing or is not the secret gets 401   *)
(* and touches no session, handler or registry entry; GET /health succeeds *)
(* whatever the token; with no secret configured no request gets 401.      *)
(***************************************************************************)
C19_AuthorizationGate ==
    [][ \A r \in Requests :
          (lastReq'.kind = "arrive" /\ lastReq'.request = r)
          => /\ (~Authorized(r) /\ r.path # "/health")
                    => /\ lastReq'.status = 401
                       /\ NoSessionLogic
             /\ (r.path = "/health" /\ r.method = "GET") => lastReq'.status = 200
             /\ Trim(mcpAuthToken) = << >> => lastReq'.status # 401
      ]_vars

(***************************************************************************)
(* C20. Timeout bound: every upstream call that has started returns or     *)
(* fails in the end, whatever stage the upstream stops answering at: the   *)
(* token request, the headers of the business response, or its body.       *)
(***************************************************************************)
C20_TimeoutBound ==
    \A p \in Calls :
        [](req[p].pc \in {"token", "awaitFetch", "awaitBody"}
              => <>(req[p].pc = "done"))

(***************************************************************************)
(* C21. Timer release: a token request and a business request each have    *)
(* one timer armed while their fetch is pending, none once the operation   *)
(* has ended, however it ended; at all times the armed timers are no more  *)
(* than the network requests in flight.                                    *)
(***************************************************************************)
C21_Armed(p) == call[p].timers + (IF req[p].timer THEN 1 ELSE 0)

C21_OnTheWire(p) ==
    (IF call[p].pc = "awaitToken" THEN 1 ELSE 0)
        + (IF req[p].pc \in {"awaitFetch", "awaitBody"} THEN 1 ELSE 0)

C21_TimerRelease ==
    \A p \in Calls :
        /\ call[p].pc = "awaitToken" => call[p].timers = 1
        /\ call[p].pc \in {"idle", "done"} => call[p].timers = 0
        /\ req[p].pc = "awaitFetch" => req[p].timer
        /\ req[p].pc \in {"idle", "done"} => ~req[p].timer
        /\ C21_Armed(p) <= C21_OnTheWire(p)

\* a call whose token came from the second candidate of a sweep, after the
\* first one timed out, and whose business request was aborted: no timer is
\* left armed
C21_Witness ==
    \E p \in Calls :
        /\ req[p].pc = "done"
        /\ req[p].result = Failed(<<"This operation was aborted">>)
        /\ Len(call[p].sent) = 2
        /\ C21_Armed(p) = 0

(***************************************************************************)
(* C22. Empty-body tolerance: a call whose response had a 2xx status never *)
(* fails; when the body was empty, blank or not JSON it returns the        *)
(* success marker, and when the body was JSON it returns the parsed value. *)
(***************************************************************************)
C22_Blank(text) == \A i \in 1..Len(text) : text[i] = " "

C22_EmptyBodyTolerance ==
    \A p \in Calls :
        (req[p].pc = "done" /\ ResponseOk(req[p].status))
            => /\ req[p].result.kind # "error"
               /\ (C22_Blank(req[p].text)
                     \/ JSON_parse(req[p].text) = JSON_SYNTAX_ERROR)
                      => req[p].result = SUCCESS_MARKER
               /\ (~C22_Blank(req[p].text)
                     /\ JSON_parse(req[p].text) # JSON_SYNTAX_ERROR)
                      => /\ req[p].result.kind = "json"
                         /\ req[p].result.value = JSON_parse(req[p].text)

\* a 200 response whose body was the text OK gave the success marker
C22_Witness ==
    \E p \in Calls :
        /\ req[p].pc = "done"
        /\ req[p].status = 200
        /\ req[p].text = <<"O", "K">>
        /\ req[p].result = SUCCESS_MARKER

(***************************************************************************)
(* C23. Upstream error: a call whose business response had a non-2xx       *)
(* status fails with an error that carries the status and a copy of the    *)
(* body cut to a limit; it returns neither the success marker nor a parsed *)
(* body, and leaves the cached token and the pinned endpoint as they were. *)
(***************************************************************************)
C23_UpstreamError ==
    [][ \A p \in Calls :
          (req[p].pc = "awaitBody" /\ req'[p].pc = "done"
              /\ ~ResponseOk(req[p].status))
          => LET result == req'[p].result
                 copy == Tail(result.message)
             IN /\ result.kind = "error"
                /\ result.status = req[p].status
                /\ StartsWith(req'[p].text, copy)
                /\ Len(copy) <= ErrorBodyLimit
                /\ UNCHANGED cacheVars
      ]_vars

(***************************************************************************)
(* C28. No partially constructed session: every entry of the registry maps *)
(* to a transport whose protocol server has finished connecting to it, so  *)
(* no lookup finds a session still under construction.                     *)
(***************************************************************************)
C28_NoPartialSession ==
    \A k \in DOMAIN transports : heap[transports[k]].connected

\* a session is registered while the handler of another one is still
\* connecting
C28_Witness ==
    /\ DOMAIN transports # {}
    /\ \E s \in Slots : http[s].pc = "connect" /\ ~heap[http[s].t].connected

(***************************************************************************)
(* C29. Liveness report: GET /health answers with the service status and a *)
(* session count that is the number of sessions registered and not removed *)
(* since: the count the answer gives is the size of the registry, and the  *)
(* registry grows by one exactly when a session is created and shrinks by  *)
(* one exactly when a registered session is closed.                        *)
(***************************************************************************)
C29_Created ==
    \E s \in Slots :
        /\ http[s].pc = "initialize" /\ http'[s].pc = "idle"
        /\ lastReq'.message = "ok"
        /\ heap[http[s].t].sessionId # 0

C29_Closed ==
    \/ \E s \in Slots :
          /\ http[s].pc = "delete" /\ http'[s].pc = "idle"
          /\ lastReq'.message # "throws"
          /\ http[s].sessionId \in DOMAIN transports
    \/ /\ lastReq'.kind = "close"
       /\ heap[lastReq'.t].sessionId \in DOMAIN transports

C30_IssuedIdsUsable ==
    [][ \A r \in Requests :
          ( /\ TakesIn(r)
            /\ SessionBound(r)
            /\ \E t \in 1..Len(heap) : /\ heap[t].sessionId = r.sid
                                       /\ r.sid # 0
                                       /\ ~heap[t].closed
            /\ r.sid \notin tornDown )
          => lastReq'.message # INVALID_SESSION
      ]_vars

(***************************************************************************)
(* The upstream calls of the sessions.                                     *)
(***************************************************************************)
\* the upstream calls now under way
UnderWay == {p \in Calls : req[p].pc \in {"token", "awaitFetch", "awaitBody"}}

(***************************************************************************)
(* C24. Teardown independence: whenever a DELETE for a session waits on    *)
(* its transport, the teardown can complete at once, whatever upstream     *)
(* calls of other sessions are under way: it removes the session's mapping *)
(* and leaves those calls as they are.                                     *)
(***************************************************************************)
C24_TeardownIndependence ==
    \A s \in Slots :
        http[s].pc = "delete"
            => ENABLED ( /\ DeleteDone(s, "closed")
                         /\ http[s].sessionId \notin DOMAIN transports'
                         /\ req' = req
                         /\ call' = call )

\* the teardown of one session has completed while an upstream call made by
\* another session was waiting for its response
C24_Witness ==
    /\ lastReq.kind = "settle"
    /\ lastReq.message = "closed"
    /\ heap[lastReq.t].sessionId \in tornDown
    /\ heap[lastReq.t].sessionId \notin DOMAIN transports
    /\ \E p \in UnderWay : /\ toolCalls[p] \notin {0, lastReq.t}
                           /\ req[p].pc = "awaitFetch"

(***************************************************************************)
(* C25. One shared credential cache: a call made by the handler of any     *)
(* session while the cache holds a usable token returns that token and     *)
(* sends no token request, whichever session's call acquired it; and a     *)
(* step that creates or closes a session (the Map or the transports        *)
(* change) leaves the cached token, its expiry and the pinned endpoint as  *)
(* they were.                                                              *)
(***************************************************************************)
C25_SharedCache ==
    [][ /\ \A p \in Calls :
              (Starts(p) /\ C2_Usable) =>
                  /\ toolCalls'[p] \in 1..Len(heap)
                  /\ call'[p].pc = "done"
                  /\ call'[p].sent = << >>
                  /\ call'[p].result = Returned(accessToken)
                  /\ req'[p].bearer = accessToken
        /\ (transports' # transports \/ heap' # heap) => UNCHANGED cacheVars
      ]_vars

\* a call of one session has acquired a token, and a call of another session
\* has been given the same token without a token request of its own, after
\* sessions were created
C25_Witness ==
    \E p \in Calls, q \in Calls :
        /\ toolCalls[p] # 0
        /\ toolCalls[q] # 0
        /\ toolCalls[p] # toolCalls[q]
        /\ call[p].pc = "done"
        /\ call[p].sent # << >>
        /\ call[p].result = Returned(accessToken)
        /\ call[q].pc = "done"
        /\ call[q].sent = << >>
        /\ call[q].result = Returned(accessToken)
        /\ req[q].bearer = accessToken
        /\ Cardinality(DOMAIN transports) = 2

(***************************************************************************)
(* C26. Gateway rejections stay at the gateway: the step in which a        *)
(* request is answered with an authorization error (401), a validation     *)
(* error (400, bad body) or a session error (400, invalid session) sends   *)
(* no token request and no business request, starts no upstream call and   *)
(* suspends no handler that could start one; an upstream call starts only  *)
(* on behalf of a request that was delegated to a transport.               *)
(***************************************************************************)
C26_Rejections == {UNAUTHORIZED, BAD_BODY, INVALID_SESSION}

C26_RejectionsStayAtGateway ==
    [][ /\ (lastReq'.kind = "arrive" /\ lastReq'.message \in C26_Rejections) =>
              /\ lastReq'.status \in {400, 401}
              /\ call' = call
              /\ req' = req
              /\ toolCalls' = toolCalls
              /\ http' = http
              /\ UNCHANGED cacheVars
        /\ \A p \in Calls :
              Starts(p) => \E s \in Slots : /\ http[s].pc = "handle"
                                            /\ toolCalls'[p] = http[s].t
      ]_vars

\* a request naming a live session has just been rejected for its missing
\* token, after that session made an upstream call
C26_Witness ==
    /\ lastReq.kind = "arrive"
    /\ lastReq.status = 401
    /\ lastReq.message = UNAUTHORIZED
    /\ lastReq.request.sid \in DOMAIN transports
    /\ \E p \in Calls : /\ toolCalls[p] = transports[lastReq.request.sid]
                        /\ req[p].pc = "done"
    /\ \A s \in Slots : http[s].pc = "idle"

(***************************************************************************)
(* C27. Close does not cancel: the step that closes a session (its         *)
(* transport closes, or its DELETE completes) leaves every upstream call   *)
(* and the credential cache as they were; a token request that is answered *)
(* with a token stores it in the shared cache whether or not the session   *)
(* that made the call is still open; a request that carries an identifier *)
(* the Map does not hold is not handed to any transport; and no step puts  *)
(* back the identifier of a session that was torn down.                    *)
(***************************************************************************)
C27_Closes ==
    \/ lastReq'.kind = "close"
    \/ lastReq'.kind = "settle" /\ lastReq'.message = "closed"

C27_CloseDoesNotCancel ==
    [][ /\ C27_Closes => (req' = req /\ call' = call /\ UNCHANGED cacheVars)
        /\ \A p \in Calls :
              (Resumes(p) /\ call'[p].result.kind = "token") =>
                  /\ accessToken' = call'[p].result.token
                  /\ req'[p].pc = "awaitFetch"
                  /\ req'[p].bearer = accessToken'
        /\ ( /\ lastReq'.kind = "arrive"
             /\ SessionBound(lastReq'.request)
             /\ lastReq'.request.sid \notin DOMAIN transports ) =>
                  (http' = http /\ lastReq'.status \in {400, 401})
        /\ \A sid \in DOMAIN transports' \ DOMAIN transports :
              sid \notin tornDown /\ ~C27_Closes
      ]_vars

\* a session has just been closed while the token request of an upstream
\* call it made is on the wire; its identifier is in the Map no more
C27_Witness ==
    /\ lastReq.kind = "close"
    /\ heap[lastReq.t].closed
    /\ heap[lastReq.t].sessionId # 0
    /\ heap[lastReq.t].sessionId \notin DOMAIN transports
    /\ \E p \in Calls : /\ toolCalls[p] = lastReq.t
                        /\ req[p].pc = "token"
                        /\ call[p].pc = "awaitToken"

(***************************************************************************)
(* C31. Registry holds only open transports: every transport the Map holds *)
(* has not been closed.                                                    *)
(* The code registers the transport after the await of line 101 without    *)
(* looking at whether it was closed meanwhile; onclose, which ran before   *)
(* the entry existed, had nothing to delete.                               *)
(***************************************************************************)
C31_RegistryHoldsOpenTransports ==
    \A sid \in DOMAIN transports : ~heap[transports[sid]].closed

(***************************************************************************)
(* C32. Failure leaves the cache unchanged: the step in which              *)
(* getAccessToken fails (with the configuration error, with the error of   *)
(* the token request to the pinned endpoint, or at a failed candidate of   *)
(* the sweep, the last one included), and the set_region call that is      *)
(* rejected (URL off the allow-list, unknown region, no argument), leave   *)
(* the cached token, its expiry, the base URL and the explicit flag as     *)
(* they were.                                                              *)
(***************************************************************************)
C32_Rejected == {"invalid_url", "unknown_region", "invalid_params"}

C32_FailureLeavesCache ==
    [][ /\ \A p \in Calls :
              (Starts(p) /\ call'[p].result.kind = "error") => UNCHANGED cacheVars
        /\ \A p \in Calls :
              (Resumes(p) /\ call'[p].result.kind # "token") => UNCHANGED cacheVars
        /\ lastSet'.outcome \in C32_Rejected => UNCHANGED cacheVars
      ]_vars

\* the refresh of an expired token at the pinned endpoint has failed, and the
\* expired token is still cached
C32_Witness ==
    \E p \in Calls :
        /\ call[p].pc = "done" /\ call[p].mode = "explicit"
        /\ call[p].result.kind = "error"
        /\ accessToken # NullToken
        /\ tokenExpiry # NullExpiry
        /\ baseUrl = call[p].sent[1]

(***************************************************************************)
(* C33. Token record is replaced as a unit: in every state between two     *)
(* suspension points the cached token and its expiry are both present or   *)
(* both absent, and the expiry is the one computed for the cached token:   *)
(* the time the token was stored plus a lifetime a token response carries. *)
(* The record is the one pair of fields of the one client, so no second    *)
(* record exists.                                                          *)
(***************************************************************************)
C33_TokenRecordUnit ==
    /\ (accessToken = NullToken) <=> (tokenExpiry = NullExpiry)
    /\ accessToken # NullToken =>
            tokenExpiry - accessToken.at \in {e * 1000 : e \in ExpiresInChoices}

\* two calls have each acquired a token, at different times, and the cache
\* holds the later one with its own expiry
C33_Witness ==
    \E p \in Calls, q \in Calls :
        /\ call[p].pc = "done" /\ call[p].result.kind = "token"
        /\ call[q].pc = "done" /\ call[q].result.kind = "token"
        /\ call[p].result.token.at < call[q].result.token.at
        /\ accessToken = call[q].result.token
        /\ tokenExpiry # NullExpiry

(***************************************************************************)
(* C34. Bearer token matches its destination: every business request an    *)
(* upstream call has sent carries a bearer token that was issued by the    *)
(* endpoint the request went to.                                           *)
(* The code reads this.baseUrl after the await of getAccessToken, and      *)
(* getAccessToken stores and returns the token of the endpoint it asked    *)
(* before the await: a setBaseUrl in between parts the two.                *)
(***************************************************************************)
C34_BearerMatchesDestination ==
    \A p \in Calls :
        req[p].sent > 0 => req[p].bearer.iss = req[p].base

(***************************************************************************)
(* C35. Tool error classification: a tool call whose arguments fail        *)
(* validation ends with an error of code InvalidParams, a call that names  *)
(* an unknown tool ends with an error of code MethodNotFound, neither      *)
(* calls the client, and every tool call that fails ends with an McpError. *)
(* The catch of routeToolCall wraps whatever was thrown, the McpError of   *)
(* callAPIMethod included, in an McpError of code InternalError.           *)
(***************************************************************************)
C35_ToolErrorClassification ==
    LET step == callAPIMethod(tool.name, tool.args)
    IN tool.pc = "done" =>
          /\ tool.result.kind \in {"content", "McpError"}
          /\ step.kind = "throw" =>
                /\ tool.sent = << >>
                /\ tool.result.kind = "McpError"
                /\ step.error.kind = "McpError" =>
                       tool.result.code = step.error.code
          /\ tool.name \notin ToolNames \ {"no_such_tool"} =>
                tool.result.code = "MethodNotFound"

(***************************************************************************)
(* set_device_maintenance, as the claims about it read a tool call: the    *)
(* unit in upper case, the length of the window in thousandths of a second *)
(* (as the product of value and unit, or as the code rounds it), and what  *)
(* the call asked of the client.                                           *)
(***************************************************************************)
C36_Unit(d) == IF d.unit.isString THEN toUpperCase(d.unit.text) ELSE << >>

C36_Millis(d, rounded) ==
    LET product == d.value.milli * MAINTENANCE_UNIT_SECONDS[C36_Unit(d)]
    IN IF rounded THEN 1000 * Math_round(product, 1000) ELSE product

C36_Accepted(a, rounded) ==
    /\ a.duration.type = "object"
    /\ \/ a.duration.permanent
       \/ /\ a.duration.value.type = "number"
          /\ a.duration.value.finite
          /\ a.duration.value.milli > 0
          /\ C36_Unit(a.duration) \in {MINUTES, HOURS, DAYS, WEEKS}
          /\ C36_Millis(a.duration, rounded) >= 900 * 1000

C36_Check(rounded) ==
    LET a == tool.args
    IN (tool.name = "set_device_maintenance" /\ a.id.type = "number") =>
          /\ a.mode = "ON" =>
                IF C36_Accepted(a, rounded)
                THEN /\ Len(tool.sent) = 1
                     /\ tool.sent[1].method = "PUT"
                     /\ tool.sent[1].id = a.id
                     /\ tool.sent[1].body.present
                     /\ tool.sent[1].body.hasEnd = ~a.duration.permanent
                     /\ ~a.duration.permanent =>
                            1000 * (tool.sent[1].body.end - tool.sent[1].body.start)
                                = C36_Millis(a.duration, rounded)
                ELSE /\ tool.sent = << >>
                     /\ tool.pc = "done"
                     /\ tool.result.kind = "McpError"
          /\ a.mode = "OFF" =>
                /\ Len(tool.sent) = 1
                /\ tool.sent[1].method = "DELETE"
                /\ tool.sent[1].id = a.id
                /\ ~tool.sent[1].body.present

(***************************************************************************)
(* C36, as stated. Maintenance window validation: with mode ON a PUT is    *)
(* sent exactly when the duration is permanent, or its value is a positive *)
(* number, its unit one of MINUTES, HOURS, DAYS, WEEKS and value times the *)
(* unit's seconds is at least 900; the end is then the start plus that     *)
(* product (no end when permanent); every other ON input is rejected with  *)
(* no call of the client; mode OFF sends a DELETE.                         *)
(***************************************************************************)
C36_MaintenanceAsStated == C36_Check(FALSE)

(***************************************************************************)
(* C36, amended. The length of the window is the product of value and the  *)
(* unit's seconds rounded to the nearest second (Math.round): the PUT is   *)
(* sent when the rounded length is at least 900, and the end is the start  *)
(* plus the rounded length. The rest is as stated.                         *)
(***************************************************************************)
C36_MaintenanceWindow == C36_Check(TRUE)

\* a window of 14.995 minutes has been accepted: 899.7 seconds, sent as 900
C36_Witness ==
    /\ tool.name = "set_device_maintenance"
    /\ tool.args.mode = "ON"
    /\ tool.args.duration.value = Number(14995)
    /\ C36_Unit(tool.args.duration) = MINUTES
    /\ Len(tool.sent) = 1
    /\ tool.sent[1].method = "PUT"
    /\ tool.sent[1].body.end = tool.sent[1].body.start + 900

(***************************************************************************)
(* C37. Device pagination terminates: getAllDevices asks for at most       *)
(* MAX_PAGES pages, each of PAGE_SIZE devices; the first without a cursor, *)
(* each next one with the id of the last device of the page before, which  *)
(* was a full list; it asks for no page after one that is empty, no list   *)
(* or shorter than PAGE_SIZE; and what it returns is the pages received,   *)
(* in the order received.                                                  *)
(***************************************************************************)
C37_Full(b) == b.kind = "value" /\ b.isArray /\ b.length = PAGE_SIZE

C37_Listed(b) == b.kind = "value" /\ b.isArray /\ b.length > 0

C37_PaginationTerminates ==
    LET n == Len(tool.sent)
        m == Len(tool.served)
    IN tool.name = "search_devices_by_name" =>
          /\ n \in 1..MAX_PAGES
          /\ tool.sent[1].after = 0
          /\ \A i \in 1..n : /\ tool.sent[i].method = "GET"
                              /\ tool.sent[i].pageSize = PAGE_SIZE
          /\ \A i \in 2..n : /\ C37_Full(tool.served[i - 1])
                              /\ tool.sent[i].after = tool.served[i - 1].lastId
          /\ \A i \in 1..(m - 1) : C37_Full(tool.served[i])
          /\ tool.pc = "await" => m = n - 1
          /\ tool.pc = "done" =>
                /\ m = n
                /\ ~C37_Full(tool.served[m]) \/ m = MAX_PAGES
                /\ tool.result.kind = "content" =>
                      /\ tool.allDevices = SelectSeq(tool.served, C37_Listed)
                      /\ tool.result.totalDevices = Total(tool.served)

\* the upstream has served MAX_PAGES full pages, the ids of the first ones
\* with a gap, and getAllDevices has returned them all
C37_Witness ==
    /\ tool.name = "search_devices_by_name"
    /\ tool.pc = "done"
    /\ Len(tool.sent) = MAX_PAGES
    /\ tool.sent[2].after = PAGE_SIZE + 1
    /\ tool.sent[MAX_PAGES].after > (MAX_PAGES - 1) * PAGE_SIZE
    /\ C37_Full(tool.served[MAX_PAGES])
    /\ tool.result.totalDevices = MAX_PAGES * PAGE_SIZE

====
